---- MODULE Spec2Model ----
(***************************************************************************)
(* Model of the sector buffer library (ufs::Buffer, ufs::Random32,         *)
(* ufs::CompareResult).                                                    *)
(*                                                                         *)
(* A buffer object holds scalar fields and two pointers: _data (the byte   *)
(* allocation) and _random (the lazily created PRNG).  The heap is         *)
(* modelled by the two maps mem and rnd, so that sharing of an allocation  *)
(* between two buffer objects and a pointer to a released allocation are   *)
(* states the model can express.  Only the payload bytes [0, total) of an  *)
(* allocation are modelled.                                                *)
(*                                                                         *)
(* 32-bit and 64-bit machine words are sets of bit positions (bit i set    *)
(* iff i is in the set), so that shifts, xor and wrap-around keep their    *)
(* width.  Bytes are the integers 0..255.                                  *)
(***************************************************************************)
EXTENDS Integers, Sequences, FiniteSets, TLC

(***************************************************************************)
(* Bounds of the model                                                     *)
(***************************************************************************)
MaxSectors == 2
MaxSteps == 2

(***************************************************************************)
(* Program constants                                                       *)
(***************************************************************************)
COMPRESSION_PATTERN_SIZE_IN_BYTE == 12
COMPRESSION_LBA_SIZE_IN_BYTE == 8
COMPRESSION_MAX_PATTERN_LEN == 8
eFixPattern == 0
eIncrementingPattern == 1
eDecrementingPattern == 2
eRandomPattern == 3

\* no Random32 object
NULL == [gen |-> <<>>, isSeeded |-> FALSE]

\* the content of a released allocation (no payload holds a negative byte)
Freed == <<-1>>

\* the null address
NullAddr == 0

\* the environment variable is not set
Unset == "unset"

(***************************************************************************)
(* Machine words                                                           *)
(***************************************************************************)
MinOf(S) == CHOOSE x \in S : \A y \in S : x <= y

\* F applied to the value of e (e is evaluated once, before F is applied)
Let(F(_), e) == CHOOSE x \in {F(v) : v \in {e}} : TRUE

Min(a, b) == IF a <= b THEN a ELSE b

\* the w-bit word whose value is the small natural n (n < 2^31)
WordOf(n, w) == {i \in 0..(Min(w, 31) - 1) : (n \div (2 ^ i)) % 2 = 1}

AllOnes(w) == 0..(w - 1)

\* Every operation yields an explicitly enumerated set of bit positions.
Shl(x, k, w) == {i \in 0..(w - 1) : (i - k) \in x}

Shr(x, k, w) == {i \in 0..(w - 1) : (i + k) \in x}

Xor(x, y, w) == {i \in 0..(w - 1) : (i \in x) # (i \in y)}

\* x + 1 modulo 2^w
Inc(x, w) ==
    LET zeros == {i \in 0..(w - 1) : i \notin x}
    IN  IF zeros = {} THEN {}
        ELSE LET j == MinOf(zeros) IN {i \in 0..(w - 1) : (i \in x /\ i > j) \/ i = j}

RECURSIVE AddSmall(_, _, _)
\* x + n modulo 2^w, for a small natural n
AddSmall(x, n, w) == IF n = 0 THEN x ELSE Let(LAMBDA y : AddSmall(y, n - 1, w), Inc(x, w))

\* byte k (k = 0 is the least significant) of the word x
ByteOf(x, k) ==
    (IF 8 * k \in x THEN 1 ELSE 0) + (IF 8 * k + 1 \in x THEN 2 ELSE 0)
  + (IF 8 * k + 2 \in x THEN 4 ELSE 0) + (IF 8 * k + 3 \in x THEN 8 ELSE 0)
  + (IF 8 * k + 4 \in x THEN 16 ELSE 0) + (IF 8 * k + 5 \in x THEN 32 ELSE 0)
  + (IF 8 * k + 6 \in x THEN 64 ELSE 0) + (IF 8 * k + 7 \in x THEN 128 ELSE 0)

\* the n bytes of x as they lie in memory on the little-endian host
WordBytes(x, n) == [k \in 1..n |-> ByteOf(x, k - 1)]

(***************************************************************************)
(* boost::random::taus88 as used by Random32: three linear feedback shift  *)
(* engines <32,31,13,12>, <32,29,2,4>, <32,28,3,17>, xor-combined.         *)
(***************************************************************************)
\* seed(s0): a value below 2^(32-k) is raised by 2^(32-k)
LfsrSeed(s0, k) ==
    IF \A i \in s0 : i < 32 - k THEN {i \in 0..31 : i \in s0 \/ i = 32 - k} ELSE s0

LfsrStep(value, k, q, s) ==
    LET b      == Shr(Xor(Shl(value, q, 32), value, 32), k - s, 32)
        masked == {i \in value : i >= 32 - k}
    IN  Xor(Shl(masked, s, 32), b, 32)

Taus88Seed(seed) == <<LfsrSeed(seed, 31), LfsrSeed(seed, 29), LfsrSeed(seed, 28)>>

Taus88Step(gen) ==
    <<LfsrStep(gen[1], 31, 13, 12), LfsrStep(gen[2], 29, 2, 4), LfsrStep(gen[3], 28, 3, 17)>>

Taus88Out(gen) == Xor(Xor(gen[1], gen[2], 32), gen[3], 32)

\* the first 12 bytes of the generator object: its three state words
Taus88Bytes(gen) == WordBytes(gen[1], 4) \o WordBytes(gen[2], 4) \o WordBytes(gen[3], 4)

(***************************************************************************)
(* ufs::Random32                                                           *)
(***************************************************************************)
\* Random32(): seeded from the wall clock, of which the generator keeps 32 bits
Random32Default(clock) == [gen |-> Taus88Seed(clock), isSeeded |-> FALSE]

Random32Seeded(seed) == [gen |-> Taus88Seed(seed), isSeeded |-> TRUE]

Random32Copy(other) == [gen |-> other.gen, isSeeded |-> other.isSeeded]

\* Seed that marks the generator as seeded but leaves its state
SeedFlagOnly(random, seed) == [random EXCEPT !.isSeeded = TRUE]

Seed(random, seed) == [gen |-> Taus88Seed(seed), isSeeded |-> TRUE]

\* Next(): the generator steps, the value returned is the new combined state
Random32Next(random) ==
    LET g == Taus88Step(random.gen)
    IN  [value |-> Taus88Out(g), random |-> [random EXCEPT !.gen = g]]


(***************************************************************************)
(* Buffer: the value of one buffer object as its methods see it.           *)
(*   name, bytesPerSector, sectorCount, usePatternMode : the scalar fields *)
(*   data   : the payload bytes, byte index i at data[i + 1]; Freed when   *)
(*            _data points to a released allocation                        *)
(*   random : NULL or the Random32 object _random points to                *)
(* A method yields [err, buf]: the error thrown ("ok" for none) and the    *)
(* object as the method leaves it.                                         *)
(***************************************************************************)
Ok(buf) == [err |-> "ok", buf |-> buf]

Throw(kind, buf) == [err |-> kind, buf |-> buf]

GetTotalBytes(buf) == buf.sectorCount * buf.bytesPerSector

\* memset(_dataStart + start, value, len)
MemSet(data, start, value, len) ==
    SubSeq(data, 1, start) \o [j \in 1..len |-> value] \o SubSeq(data, start + len + 1, Len(data))

\* memcpy(_dataStart + dst, _dataStart + src, len)
MemCpy(data, dst, src, len) ==
    SubSeq(data, 1, dst) \o SubSeq(data, src + 1, src + len) \o SubSeq(data, dst + len + 1, Len(data))

\* copy of the byte sequence bytes to _dataStart + dst
MemPut(data, dst, bytes) ==
    SubSeq(data, 1, dst) \o bytes \o SubSeq(data, dst + Len(bytes) + 1, Len(data))

\* A size_t near 2^64 is written as the negative integer n that stands for
\* 2^64 + n; sums, differences and products of such small integers are then
\* exact modulo 2^64, and a < b on size_t is:
ULess(a, b) == IF (a < 0) = (b < 0) THEN a < b ELSE a >= 0

\* Yields the error and the normalised sector count.
ValidateSectorRangeAndGetSectorCount(buf, startSector, sectorCount) ==
    LET count == IF sectorCount = 0 THEN buf.sectorCount - startSector ELSE sectorCount
    IN  IF ~ULess(startSector, buf.sectorCount) THEN [err |-> "OutOfRange", sectorCount |-> 0]
        ELSE IF ULess(buf.sectorCount, startSector + count)
             THEN [err |-> "OutOfRange", sectorCount |-> 0]
        ELSE [err |-> "ok", sectorCount |-> count]

GetStartAndStopBytesFromSectors(buf, startSector, sectorCount) ==
    LET v == ValidateSectorRangeAndGetSectorCount(buf, startSector, sectorCount)
    IN  IF v.err # "ok" THEN [err |-> v.err, startByte |-> 0, endByte |-> 0]
        ELSE [err |-> "ok",
              startByte |-> startSector * buf.bytesPerSector,
              endByte |-> IF v.sectorCount = 0 THEN GetTotalBytes(buf)
                          ELSE (startSector + v.sectorCount) * buf.bytesPerSector]

ValidateIndex(buf, index) == IF ~ULess(index, GetTotalBytes(buf)) THEN "OutOfRange" ELSE "ok"

RECURSIVE FillCompressionInfoLoopNoZeroPage(_, _, _, _, _, _, _)
\* the loop without the zero-page exception: the type byte is always written
FillCompressionInfoLoopNoZeroPage(data, bytesPerSector, type, pattenLen, startByte, endByte, i) ==
    IF i >= endByte THEN data
    ELSE LET d1 == [data EXCEPT ![i + 1] = (type * 16 + pattenLen) % 256]
             d2 == IF type \in {eFixPattern, eIncrementingPattern, eDecrementingPattern}
                   THEN MemCpy(d1, i - COMPRESSION_PATTERN_SIZE_IN_BYTE,
                               i - COMPRESSION_PATTERN_SIZE_IN_BYTE - COMPRESSION_LBA_SIZE_IN_BYTE,
                               pattenLen)
                   ELSE d1
         IN  Let(LAMBDA d : FillCompressionInfoLoopNoZeroPage(d, bytesPerSector, type, pattenLen,
                                                             startByte, endByte,
                                                             i + bytesPerSector), d2)

RECURSIVE FillCompressionInfoLoop(_, _, _, _, _, _, _)
FillCompressionInfoLoop(data, bytesPerSector, type, pattenLen, startByte, endByte, i) ==
    IF i >= endByte THEN data
    ELSE LET d1 == IF ~(data[startByte + 1] = 0 /\ type = eFixPattern)
                   THEN [data EXCEPT ![i + 1] = (type * 16 + pattenLen) % 256]
                   ELSE data
             d2 == IF type \in {eFixPattern, eIncrementingPattern, eDecrementingPattern}
                   THEN MemCpy(d1, i - COMPRESSION_PATTERN_SIZE_IN_BYTE,
                               i - COMPRESSION_PATTERN_SIZE_IN_BYTE - COMPRESSION_LBA_SIZE_IN_BYTE,
                               pattenLen)
                   ELSE d1
         IN  Let(LAMBDA d : FillCompressionInfoLoop(d, bytesPerSector, type, pattenLen,
                                                    startByte, endByte, i + bytesPerSector), d2)

\* FillCompressionInfo whose record lies one byte further into the sector
FillCompressionInfoShifted(data, bytesPerSector, type, pattenLen, startByte, endByte) ==
    IF pattenLen > COMPRESSION_MAX_PATTERN_LEN THEN data
    ELSE FillCompressionInfoLoop(data, bytesPerSector, type, pattenLen, startByte, endByte,
             startByte + COMPRESSION_LBA_SIZE_IN_BYTE + COMPRESSION_PATTERN_SIZE_IN_BYTE + 1)

FillCompressionInfo(data, bytesPerSector, type, pattenLen, startByte, endByte) ==
    IF pattenLen > COMPRESSION_MAX_PATTERN_LEN THEN data
    ELSE FillCompressionInfoLoop(data, bytesPerSector, type, pattenLen, startByte, endByte,
             startByte + COMPRESSION_LBA_SIZE_IN_BYTE + COMPRESSION_PATTERN_SIZE_IN_BYTE)

RECURSIVE FillPatternTripling(_, _, _, _, _)
\* FillPattern whose copy length grows threefold, past the bytes written so far
FillPatternTripling(data, patterStart, patternLen, startByte, endByte) ==
    IF startByte >= endByte THEN data
    ELSE LET copyLen == Min(patternLen, endByte - startByte)
         IN  Let(LAMBDA d : FillPatternTripling(d, patterStart,
                                                IF patternLen >= 4096 THEN patternLen
                                                ELSE patternLen * 3,
                                                startByte + copyLen, endByte),
                 MemCpy(data, startByte, patterStart, copyLen))

RECURSIVE FillPattern(_, _, _, _, _)
FillPattern(data, patterStart, patternLen, startByte, endByte) ==
    IF startByte >= endByte THEN data
    ELSE LET copyLen == Min(patternLen, endByte - startByte)
         IN  Let(LAMBDA d : FillPattern(d, patterStart,
                                        IF patternLen >= 4096 THEN patternLen ELSE patternLen * 2,
                                        startByte + copyLen, endByte),
                 MemCpy(data, startByte, patterStart, copyLen))

RECURSIVE FillPatternCopiesTripling(_, _, _, _)
\* the copy steps of a FillPattern whose copy length grows threefold
FillPatternCopiesTripling(patterStart, patternLen, startByte, endByte) ==
    IF startByte >= endByte THEN <<>>
    ELSE LET copyLen == Min(patternLen, endByte - startByte)
         IN  <<[patterStart |-> patterStart, startByte |-> startByte, copyLen |-> copyLen]>>
             \o FillPatternCopiesTripling(patterStart,
                                          IF patternLen >= 4096 THEN patternLen
                                          ELSE patternLen * 3,
                                          startByte + copyLen, endByte)

RECURSIVE FillPatternCopies(_, _, _, _)
\* The memcpy calls of FillPattern, one per iteration of its loop, in order:
\* memcpy(_dataStart + startByte, _dataStart + patterStart, copyLen).
FillPatternCopies(patterStart, patternLen, startByte, endByte) ==
    IF startByte >= endByte THEN <<>>
    ELSE LET copyLen == Min(patternLen, endByte - startByte)
         IN  <<[patterStart |-> patterStart, startByte |-> startByte, copyLen |-> copyLen]>>
             \o FillPatternCopies(patterStart,
                                  IF patternLen >= 4096 THEN patternLen ELSE patternLen * 2,
                                  startByte + copyLen, endByte)

\* A memset whose length has wrapped (endByte < startByte) runs through the
\* rest of the payload and past the allocation: "Undefined".
Fill(buf, value, startSector, sectorCount) ==
    LET r  == GetStartAndStopBytesFromSectors(buf, startSector, sectorCount)
        d1 == MemSet(buf.data, r.startByte, value, r.endByte - r.startByte)
        d2 == IF buf.usePatternMode
              THEN FillCompressionInfo(d1, buf.bytesPerSector, eFixPattern, 1, r.startByte, r.endByte)
              ELSE d1
    IN  IF r.err # "ok" THEN Throw(r.err, buf)
        ELSE IF r.endByte < r.startByte
             THEN Throw("Undefined",
                        [buf EXCEPT !.data = MemSet(buf.data, r.startByte, value,
                                                    GetTotalBytes(buf) - r.startByte)])
        ELSE Ok([buf EXCEPT !.data = d2])

FillZeros(buf, startSector, sectorCount) == Fill(buf, 0, startSector, sectorCount)

FillOnes(buf, startSector, sectorCount) == Fill(buf, 255, startSector, sectorCount)

\* a ramp that stops at 0 and 255 instead of wrapping
RampSectorSaturating(data, startByte, bytesPerSector, startingValue, step) ==
    MemPut(data, startByte,
           [k \in 1..bytesPerSector |->
                IF startingValue + step * (k - 1) > 255 THEN 255
                ELSE IF startingValue + step * (k - 1) < 0 THEN 0
                ELSE startingValue + step * (k - 1)])

\* one sector written as startingValue, startingValue + step, ... with 8-bit wrap
RampSector(data, startByte, bytesPerSector, startingValue, step) ==
    MemPut(data, startByte,
           [k \in 1..bytesPerSector |-> (startingValue + step * (k - 1) + 256 * bytesPerSector) % 256])

FillRamp(buf, startingValue, step, type, startSector, sectorCount) ==
    LET r  == GetStartAndStopBytesFromSectors(buf, startSector, sectorCount)
        d1 == RampSector(buf.data, r.startByte, buf.bytesPerSector, startingValue, step)
        d2 == IF r.endByte > r.startByte + buf.bytesPerSector
              THEN FillPattern(d1, r.startByte, buf.bytesPerSector,
                               r.startByte + buf.bytesPerSector, r.endByte)
              ELSE d1
        d3 == IF buf.usePatternMode
              THEN FillCompressionInfo(d2, buf.bytesPerSector, type, 1, r.startByte, r.endByte)
              ELSE d2
    IN  IF r.err # "ok" THEN Throw(r.err, buf) ELSE Ok([buf EXCEPT !.data = d3])

FillIncrementing(buf, startingValue, startSector, sectorCount) ==
    FillRamp(buf, startingValue, 1, eIncrementingPattern, startSector, sectorCount)

FillDecrementing(buf, startingValue, startSector, sectorCount) ==
    FillRamp(buf, startingValue, -1, eDecrementingPattern, startSector, sectorCount)

FillBytes(buf, list, startSector, sectorCount) ==
    LET byteCount  == Len(list)
        r          == GetStartAndStopBytesFromSectors(buf, startSector, sectorCount)
        patternEnd == r.startByte + byteCount
        d1 == MemPut(buf.data, r.startByte,
                     [k \in 1..(Min(patternEnd, r.endByte) - r.startByte) |->
                          list[((k - 1) % byteCount) + 1]])
        d2 == IF r.endByte > patternEnd
              THEN FillPattern(d1, r.startByte, byteCount, patternEnd, r.endByte)
              ELSE d1
        d3 == IF buf.usePatternMode
              THEN FillCompressionInfo(d2, buf.bytesPerSector, eFixPattern, byteCount % 256,
                                       r.startByte, r.endByte)
              ELSE d2
    IN  IF byteCount = 0 THEN Ok(buf)
        ELSE IF r.err # "ok" THEN Throw(r.err, buf)
        ELSE Ok([buf EXCEPT !.data = d3])

\* the store of a big-endian host
Put64BigEndian(data, index, value) ==
    MemPut(data, 8 * index, [k \in 1..8 |-> ByteOf(value, 8 - k)])

\* Writes the 64-bit value at data64BitPtr[index], little-endian host.
Put64(data, index, value) == MemPut(data, 8 * index, WordBytes(value, 8))

RECURSIVE FillAddressOverlayLoop(_, _, _, _, _, _)
FillAddressOverlayLoop(data, startingValue, jump, start64bitOffset, end64bitOffset, i) ==
    IF i >= end64bitOffset THEN data
    ELSE LET value == AddSmall(startingValue, (i - start64bitOffset) \div jump, 64)
             d1    == Put64(data, i, value)
             d2    == Put64(d1, i + jump - 1, value)
         IN  Let(LAMBDA d : FillAddressOverlayLoop(d, startingValue, jump, start64bitOffset,
                                                   end64bitOffset, i + jump), d2)

\* The sizes of the model are far below LLONG_MAX, so ValidateCounterMax never throws.
FillAddressOverlay(buf, startingValue, startSector, sectorCount) ==
    LET v    == ValidateSectorRangeAndGetSectorCount(buf, startSector, sectorCount)
        jump == buf.bytesPerSector \div 8
        start64bitOffset == startSector * jump
        end64bitOffset   == (startSector + v.sectorCount) * jump
    IN  IF v.err # "ok" THEN Throw(v.err, buf)
        ELSE Ok([buf EXCEPT !.data =
                    FillAddressOverlayLoop(buf.data, startingValue, jump, start64bitOffset,
                                           end64bitOffset, start64bitOffset)])

SetByte(buf, index, value) ==
    IF ValidateIndex(buf, index) # "ok" THEN Throw("OutOfRange", buf)
    ELSE Ok([buf EXCEPT !.data = [buf.data EXCEPT ![index + 1] = value]])

\* the word whose bytes, least significant first, are the sequence bytes:
\* bytes[1] | bytes[2] << 8 | ...
WordFrom(bytes) ==
    {i \in 0..(8 * Len(bytes) - 1) : (bytes[(i \div 8) + 1] \div (2 ^ (i % 8))) % 2 = 1}

Reverse(bytes) == [k \in 1..Len(bytes) |-> bytes[Len(bytes) + 1 - k]]

\* The bytes of a width-byte value in the order the setter stores them:
\* value & 0xFF first for the little-endian setters, last for the others.
StoredBytes(value, width, bigEndian) ==
    IF bigEndian THEN Reverse(WordBytes(value, width)) ELSE WordBytes(value, width)

\* the setter that stores in host order whatever the endianness asked for
SetHostOrder(buf, index, width, bigEndian, value) ==
    IF ValidateIndex(buf, index + width - 1) # "ok" THEN Throw("OutOfRange", buf)
    ELSE IF index < 0 THEN Throw("Undefined", buf)
    ELSE Ok([buf EXCEPT !.data = MemPut(buf.data, index, WordBytes(value, width))])

\* SetByte, SetWord, SetDWord, SetQWord and their BigEndian forms, by width.
\* ValidateIndex is given index + width - 1, computed in size_t; when that
\* sum wraps the test passes and the stores go to _dataStart[index], which
\* lies outside the payload.
Set(buf, index, width, bigEndian, value) ==
    IF ValidateIndex(buf, index + width - 1) # "ok" THEN Throw("OutOfRange", buf)
    ELSE IF index < 0 THEN Throw("Undefined", buf)
    ELSE Ok([buf EXCEPT !.data = MemPut(buf.data, index, StoredBytes(value, width, bigEndian))])

\* GetByte, GetWord, GetDWord, GetQWord and their BigEndian forms, by width;
\* yields the error and the value read.
Get(buf, index, width, bigEndian) ==
    LET bytes == SubSeq(buf.data, index + 1, index + width)
    IN  IF ValidateIndex(buf, index + width - 1) # "ok" THEN [err |-> "OutOfRange", value |-> {}]
        ELSE IF index < 0 THEN [err |-> "Undefined", value |-> {}]
        ELSE [err |-> "ok", value |-> WordFrom(IF bigEndian THEN Reverse(bytes) ELSE bytes)]

RECURSIVE ChecksumLoop(_, _, _, _)
\* for (i = startByte; i < startByte + byteCount; i++) result = UInt8(result + _dataStart[i])
ChecksumLoop(data, i, stop, result) ==
    IF ~ULess(i, stop) THEN result
    ELSE ChecksumLoop(data, i + 1, stop, (result + data[i + 1]) % 256)

\* Yields the error and the checksum byte.  startByte + byteCount is a
\* size_t sum: when it wraps, the range test passes and the loop does not run.
CalculateChecksumByte(buf, startByte, byteCount) ==
    IF byteCount = 0 THEN [err |-> "InvalidArgument", result |-> 0]
    ELSE IF ULess(GetTotalBytes(buf), startByte + byteCount)
         THEN [err |-> "OutOfRange", result |-> 0]
    ELSE [err |-> "ok",
          result |-> ((255 - ChecksumLoop(buf.data, startByte, startByte + byteCount, 0)) + 1) % 256]

\* std::copy(src._dataStart + startByte, src._dataStart + endByte,
\*           dest._dataStart + destStartByte), the source range being that of
\* GetStartAndStopBytesFromSectors on src.  Nothing compares the destination
\* range with the payload of dest: a copy that runs past it writes behind the
\* payload ("Undefined"; the bytes that fall inside the payload are written).
StdCopy(src, dest, srcStartSector, destStartByte, sectorCount) ==
    LET r == GetStartAndStopBytesFromSectors(src, srcStartSector, sectorCount)
        bytesToCopy == r.endByte - r.startByte
        room == GetTotalBytes(dest) - destStartByte
    IN  IF r.err # "ok" THEN Throw(r.err, dest)
        ELSE IF bytesToCopy < 0 THEN Throw("Undefined", dest)
        ELSE IF bytesToCopy > room
             THEN Throw("Undefined",
                        IF room <= 0 THEN dest
                        ELSE [dest EXCEPT !.data =
                                 MemPut(dest.data, destStartByte,
                                        SubSeq(src.data, r.startByte + 1, r.startByte + room))])
        ELSE Ok([dest EXCEPT !.data = MemPut(dest.data, destStartByte,
                                             SubSeq(src.data, r.startByte + 1, r.endByte))])

\* src.CopyTo(dest, ...): the destination byte offset is computed with the
\* bytesPerSector of src, the object the method is called on
CopyTo(src, dest, startSector, destStartSector, sectorCount) ==
    StdCopy(src, dest, startSector, destStartSector * src.bytesPerSector, sectorCount)

\* dest.CopyFrom(src, ...)
CopyFrom(dest, src, startSector, srcStartSector, sectorCount) ==
    StdCopy(src, dest, srcStartSector, startSector * dest.bytesPerSector, sectorCount)

(***************************************************************************)
(* Random fills                                                            *)
(***************************************************************************)
\* GetRandom whose unseeded path never reseeds an existing generator
GetRandomNoReseed(random, useSeed, seed, clock) ==
    IF random = NULL
    THEN IF useSeed THEN Random32Seeded(seed) ELSE Random32Default(clock)
    ELSE IF useSeed THEN Seed(random, seed) ELSE random

\* clock is the wall-clock seed a default-constructed Random32 would take
GetRandom(random, useSeed, seed, clock) ==
    IF random = NULL
    THEN IF useSeed THEN Random32Seeded(seed) ELSE Random32Default(clock)
    ELSE IF useSeed THEN Seed(random, seed)
         ELSE IF random.isSeeded THEN Seed(random, WordOf(0, 32))
         ELSE random

RECURSIVE RandomDataLoop(_, _, _, _, _, _, _)
\* The word loop of FillSectorsWithRandomData: yields the data and the generator.
\* genBuffer is written at the first word of a sector before it is read at word 6.
RandomDataLoop(data, random, genBuffer, usePatternMode, bytesPerSector, i, endWord) ==
    IF i >= endWord THEN [data |-> data, random |-> random]
    ELSE LET sectorByteIndex == i % (bytesPerSector \div 4)
             gb == IF usePatternMode /\ sectorByteIndex = 0
                   THEN Taus88Bytes(random.gen) ELSE genBuffer
             d1 == IF usePatternMode /\ sectorByteIndex = 6
                   THEN MemPut(data, 4 * (i - 4), gb) ELSE data
             n  == Random32Next(random)
             d2 == MemPut(d1, 4 * i, WordBytes(n.value, 4))
         IN  Let(LAMBDA st : RandomDataLoop(st[1], st[2], st[3], usePatternMode, bytesPerSector,
                                            i + 1, endWord), <<d2, n.random, gb>>)

\* Yields err, the data and the generator the caller passed by reference.
FillSectorsWithRandomData(buf, random, startSector, sectorCount) ==
    LET r  == GetStartAndStopBytesFromSectors(buf, startSector, sectorCount)
        l  == RandomDataLoop(buf.data, random, <<>>, buf.usePatternMode, buf.bytesPerSector,
                             r.startByte \div 4, r.endByte \div 4)
        d2 == IF buf.usePatternMode
              THEN FillCompressionInfo(l.data, buf.bytesPerSector, eRandomPattern, 0,
                                       r.startByte, r.endByte)
              ELSE l.data
    IN  IF r.err # "ok" THEN [err |-> r.err, data |-> buf.data, random |-> random]
        ELSE [err |-> "ok", data |-> d2, random |-> l.random]

FillRandomImpl(buf, startSector, sectorCount, useSeed, seed, clock) ==
    IF buf.bytesPerSector % 4 # 0 THEN Throw("Runtime", buf)
    ELSE LET r == GetRandom(buf.random, useSeed, seed, clock)
             f == FillSectorsWithRandomData(buf, r, startSector, sectorCount)
         IN  [err |-> f.err, buf |-> [buf EXCEPT !.data = f.data, !.random = f.random]]

FillRandom(buf, startSector, sectorCount, clock) ==
    FillRandomImpl(buf, startSector, sectorCount, FALSE, WordOf(0, 32), clock)

FillRandomSeeded(buf, seed, startSector, sectorCount) ==
    FillRandomImpl(buf, startSector, sectorCount, TRUE, seed, WordOf(0, 32))

RECURSIVE BySectorLoopAbsolute(_, _, _, _, _, _)
\* the sector loop seeding sector i with seed + i
BySectorLoopAbsolute(buf, random, seed, startSector, i, endSector) ==
    IF i >= endSector THEN buf
    ELSE LET r == Seed(random, AddSmall(seed, i, 32))
             f == FillSectorsWithRandomData(buf, r, i, 1)
         IN  Let(LAMBDA st : BySectorLoopAbsolute(st[1], st[2], seed, startSector, i + 1,
                                                  endSector),
                 <<[buf EXCEPT !.data = f.data], f.random>>)

RECURSIVE BySectorLoop(_, _, _, _, _, _)
\* The sector loop of FillRandomSeededBySector on its local copy of the generator.
BySectorLoop(buf, random, seed, startSector, i, endSector) ==
    IF i >= endSector THEN buf
    ELSE LET r == Seed(random, AddSmall(seed, i - startSector, 32))
             f == FillSectorsWithRandomData(buf, r, i, 1)
         IN  Let(LAMBDA st : BySectorLoop(st[1], st[2], seed, startSector, i + 1, endSector),
                 <<[buf EXCEPT !.data = f.data], f.random>>)

\* FillRandomSeededBySector on a generator of its own, _random left alone
FillRandomSeededBySectorLocal(buf, seed, startSector, sectorCount) ==
    IF buf.bytesPerSector % 4 # 0 THEN Throw("Runtime", buf)
    ELSE LET v == ValidateSectorRangeAndGetSectorCount(buf, startSector, sectorCount)
             l == BySectorLoop(buf, Random32Seeded(seed), seed, startSector, startSector,
                               startSector + v.sectorCount)
         IN  IF v.err # "ok" THEN Throw(v.err, buf)
             ELSE Ok([buf EXCEPT !.data = l.data])

FillRandomSeededBySector(buf, seed, startSector, sectorCount) ==
    IF buf.bytesPerSector % 4 # 0 THEN Throw("Runtime", buf)
    ELSE LET v == ValidateSectorRangeAndGetSectorCount(buf, startSector, sectorCount)
             r == GetRandom(buf.random, TRUE, seed, WordOf(0, 32))
             b == [buf EXCEPT !.random = r]
         IN  IF v.err # "ok" THEN Throw(v.err, buf)
             ELSE Ok(BySectorLoop(b, Random32Copy(r), seed, startSector, startSector,
                                  startSector + v.sectorCount))

(***************************************************************************)
(* Comparison                                                              *)
(***************************************************************************)
CompareResultEqual ==
    [areEqual |-> TRUE, firstDifferenceOffset |-> 0, expectedValue |-> 0,
     actualValue |-> 0, differenceCount |-> 0]

CompareResultDiff(firstDifferenceOffset, expectedValue, actualValue) ==
    [areEqual |-> FALSE, firstDifferenceOffset |-> firstDifferenceOffset,
     expectedValue |-> expectedValue, actualValue |-> actualValue, differenceCount |-> 1]

\* a scan that stops at the last differing byte instead of the first
LastDifference(diffs) == CHOOSE i \in diffs : \A j \in diffs : j <= i

\* the scan for the first i at which the two ranges differ
FirstDifference(diffs) == MinOf(diffs)

\* Yields err and the CompareResult.
CompareTo(buf, buffer, startSector, startSector2, sectorCount) ==
    LET r1 == GetStartAndStopBytesFromSectors(buf, startSector, sectorCount)
        r2 == GetStartAndStopBytesFromSectors(buffer, startSector2, sectorCount)
        span == r1.endByte - r1.startByte
        bytesToCompare == IF sectorCount = 0 THEN Min(span, r2.endByte - r2.startByte) ELSE span
        diffs == {i \in 0..(bytesToCompare - 1) :
                     buf.data[r1.startByte + i + 1] # buffer.data[r2.startByte + i + 1]}
    IN  IF r1.err # "ok" THEN [err |-> r1.err, result |-> CompareResultEqual]
        ELSE IF r2.err # "ok" THEN [err |-> r2.err, result |-> CompareResultEqual]
        ELSE IF sectorCount # 0 /\ (r2.endByte - r2.startByte) # span
             THEN [err |-> "InvalidArgument", result |-> CompareResultEqual]
        \* a wrapped length (2^64 + bytesToCompare) takes memcmp past both payloads
        ELSE IF bytesToCompare < 0 THEN [err |-> "Undefined", result |-> CompareResultEqual]
        ELSE IF diffs = {} THEN [err |-> "ok", result |-> CompareResultEqual]
        ELSE LET i == FirstDifference(diffs)
             IN  [err |-> "ok",
                  result |-> CompareResultDiff(r1.startByte + i, buf.data[r1.startByte + i + 1],
                                               buffer.data[r2.startByte + i + 1])]

\* Yields the error and the normalised length.
ValidateByteRangeAndGetLength(buf, startingOffset, length) ==
    LET len == IF length = 0 THEN GetTotalBytes(buf) - startingOffset ELSE length
    IN  IF ~ULess(startingOffset, GetTotalBytes(buf)) THEN [err |-> "OutOfRange", length |-> 0]
        ELSE IF ULess(GetTotalBytes(buf), startingOffset + len)
             THEN [err |-> "OutOfRange", length |-> 0]
        ELSE [err |-> "ok", length |-> len]

\* lookup[val]: the count of 1s in the byte val
Lookup(val) == Cardinality({bit \in 0..7 : (val \div (2 ^ bit)) % 2 = 1})

RECURSIVE BitCountLoop(_, _, _, _)
\* what the summing loop of GetBitCount adds up over the bytes [i, endByte),
\* computed by halves; val ^ 0xFF is 255 - val
BitCountLoop(data, invertMaskForCountingZeroes, i, endByte) ==
    IF i >= endByte THEN 0
    ELSE IF endByte - i = 1
         THEN Lookup(IF invertMaskForCountingZeroes = 255 THEN 255 - data[i + 1] ELSE data[i + 1])
    ELSE LET mid == (i + endByte) \div 2
         IN  BitCountLoop(data, invertMaskForCountingZeroes, i, mid)
                 + BitCountLoop(data, invertMaskForCountingZeroes, mid, endByte)

\* Yields err and the count.
GetBitCount(buf, startingOffset, length, value) ==
    LET v == ValidateByteRangeAndGetLength(buf, startingOffset, length)
        invertMaskForCountingZeroes == IF value = 0 THEN 255 ELSE 0
    IN  IF v.err # "ok" THEN [err |-> v.err, count |-> 0]
        ELSE [err |-> "ok",
              count |-> BitCountLoop(buf.data, invertMaskForCountingZeroes, startingOffset,
                                     startingOffset + v.length)]

\* the first byte is 0 and memcmp finds bytes [0, size-1) equal to [1, size)
IsAllZeros(buf) ==
    /\ buf.data[1] = 0
    /\ \A k \in 1..(GetTotalBytes(buf) - 1) : buf.data[k] = buf.data[k + 1]

(***************************************************************************)
(* Construction, copy construction, resize                                 *)
(***************************************************************************)
\* atoi of the text of DMX_SIMULATOR_ENABLED
Atoi(text) == IF text = "1" THEN 1 ELSE IF text = "2" THEN 2 ELSE 0

\* _usePatternMode as Initialize reads it from the environment
PatternModeFromEnv(envValue) == IF envValue = Unset THEN FALSE ELSE Atoi(envValue) # 0

\* new UInt8[...]: the payload of a fresh allocation holds arbitrary bytes
NewArray(total, garbage) == MemSet(<<>>, 0, garbage, total)

\* Initialize acting on the object buf; garbage is the content of fresh memory.
Initialize(buf, sectorCount, bytesPerSector, envValue, garbage) ==
    LET b1 == [buf EXCEPT !.random = NULL, !.usePatternMode = PatternModeFromEnv(envValue)]
        b2 == [b1 EXCEPT !.name = "", !.bytesPerSector = bytesPerSector,
                         !.sectorCount = sectorCount,
                         !.data = NewArray(sectorCount * bytesPerSector, garbage)]
    IN  IF sectorCount < 1 THEN Throw("InvalidArgument", b1)
        ELSE IF bytesPerSector < 1 THEN Throw("InvalidArgument", b1)
        ELSE Fill(b2, 0, 0, sectorCount)

\* no object
NoBuf ==
    [name |-> "", bytesPerSector |-> 0, sectorCount |-> 0, usePatternMode |-> FALSE,
     data |-> NullAddr, random |-> NullAddr]

\* the members of an object before its constructor has run
RawObject ==
    [name |-> "", bytesPerSector |-> 0, sectorCount |-> 0, usePatternMode |-> FALSE,
     data |-> Freed, random |-> NULL]

\* Buffer(sectorCount, bytesPerSector)
Construct(sectorCount, bytesPerSector, envValue, garbage) ==
    Initialize(RawObject, sectorCount, bytesPerSector, envValue, garbage)

\* _random of the copy: a clone of the source generator when there is one
CopyRandom(random) == IF random # NULL THEN Random32Copy(random) ELSE NULL

\* Buffer(const Buffer&): _name is not assigned, so it is default-constructed
CopyConstruct(buffer, garbage) ==
    [name |-> "",
     bytesPerSector |-> buffer.bytesPerSector,
     sectorCount |-> buffer.sectorCount,
     usePatternMode |-> buffer.usePatternMode,
     random |-> CopyRandom(buffer.random),
     data |-> MemPut(NewArray(GetTotalBytes(buffer), garbage), 0,
                     SubSeq(buffer.data, 1, GetTotalBytes(buffer)))]

\* Resize that does not copy the saved bytes back
ResizeNoRestore(buf, sectorCount, bytesPerSector, envValue, garbage) ==
    Initialize([buf EXCEPT !.data = Freed, !.random = NULL], sectorCount, bytesPerSector,
               envValue, garbage)

Resize(buf, sectorCount, bytesPerSector, envValue, garbage) ==
    LET oldTotalBytes   == GetTotalBytes(buf)
        newTotalBytes   == sectorCount * bytesPerSector
        bytesToPreserve == Min(oldTotalBytes, newTotalBytes)
        oldData == SubSeq(buf.data, 1, bytesToPreserve)
        \* delete [] _data; delete _random; _random = 0
        b1 == [buf EXCEPT !.data = Freed, !.random = NULL]
        r  == Initialize(b1, sectorCount, bytesPerSector, envValue, garbage)
    IN  IF r.err # "ok" THEN r
        ELSE Ok([r.buf EXCEPT !.data = MemPut(r.buf.data, 0, oldData)])

SetName(buf, name) == Ok([buf EXCEPT !.name = name])

\* _dataBufferSize and _allocatedByteCount for a payload of dataByteCount bytes
CalculateTotalBytesToAllocate(dataByteCount) ==
    LET dataByteCountLowBits == dataByteCount % 4096
        alignmentOffset == IF dataByteCountLowBits = 0 THEN 0 ELSE 4096 - dataByteCountLowBits
    IN  [dataBufferSize |-> dataByteCount + alignmentOffset,
         allocatedByteCount |-> dataByteCount + alignmentOffset + 4095 + 4096]

\* CalculateDataStart that leaves no 4096 bytes before the payload
CalculateDataStartNoGuard(data, dataByteCount, allocatedByteCount) ==
    LET dataStartLowBits == data % 4096
        alignmentOffset == IF dataStartLowBits = 0 THEN 0 ELSE 4096 - dataStartLowBits
        dataStart == data + alignmentOffset
    IN  IF ULess(data + allocatedByteCount, dataStart + dataByteCount)
        THEN [err |-> "Runtime", dataStart |-> 0]
        ELSE [err |-> "ok", dataStart |-> dataStart]

\* Yields the error and _dataStart for the raw allocation at address data;
\* addresses are UInt64, written as the arguments of ULess are.
CalculateDataStart(data, dataByteCount, allocatedByteCount) ==
    LET dataStartLowBits == data % 4096
        alignmentOffset == IF dataStartLowBits = 0 THEN 0 ELSE 4096 - dataStartLowBits
        dataStart == data + alignmentOffset + 4096
    IN  IF ULess(data + allocatedByteCount, dataStart + dataByteCount)
        THEN [err |-> "Runtime", dataStart |-> 0]
        ELSE [err |-> "ok", dataStart |-> dataStart]

\* The allocation members Initialize leaves for a payload of total bytes,
\* operator new returning the address data.
InitializeAlloc(total, data) ==
    LET t == CalculateTotalBytesToAllocate(total)
        s == CalculateDataStart(data, t.dataBufferSize, t.allocatedByteCount)
    IN  [err |-> s.err,
         alloc |-> [data |-> data, dataStart |-> s.dataStart,
                    allocatedByteCount |-> t.allocatedByteCount,
                    dataBufferSize |-> t.dataBufferSize]]

\* The allocation members the copy constructor gives the copy of an object
\* whose members are from: both sizes are copied, the array is new.
CopyConstructAlloc(from, data) ==
    LET s == CalculateDataStart(data, from.dataBufferSize, from.allocatedByteCount)
    IN  [err |-> s.err,
         alloc |-> [data |-> data, dataStart |-> s.dataStart,
                    allocatedByteCount |-> from.allocatedByteCount,
                    dataBufferSize |-> from.dataBufferSize]]

(***************************************************************************)
(* The program: a client that owns up to two buffer objects and calls      *)
(* their methods, and an environment in which DMX_SIMULATOR_ENABLED may    *)
(* change.                                                                 *)
(*   bufs   : buffer object -> NoBuf or its fields, data and random being  *)
(*            addresses into mem and rnd                                   *)
(*   mem    : address -> payload bytes of the allocation, or Freed         *)
(*   rnd    : address -> Random32 object, or NULL when there is none       *)
(*   env    : the value of DMX_SIMULATOR_ENABLED, or Unset                 *)
(*   seeded : history, per object: a seeded random fill has succeeded      *)
(*            since the object was constructed or last resized             *)
(*   last   : history: the last call, its object, arguments and error      *)
(*   res    : the CompareResult object the client holds                    *)
(*   steps  : number of calls made                                         *)
(*   alloc  : buffer object -> NoAlloc or its allocation members: _data,   *)
(*            _dataStart (numeric addresses), _allocatedByteCount and      *)
(*            _dataBufferSize; followed in SpecAlloc only                  *)
(*   lookup : the static table of GetBitCount, as the entries the calls    *)
(*            of SpecBitCount read                                         *)
(*   tasks  : task -> its position in a concurrent GetBitCount call        *)
(***************************************************************************)
VARIABLES bufs, mem, rnd, env, seeded, last, steps, res, alloc, lookup, tasks

vars == <<bufs, mem, rnd, env, seeded, last, steps, res, alloc, lookup, tasks>>

BufIds == {1, 2}

\* no allocation members followed
NoAlloc == [data |-> 0, dataStart |-> 0, allocatedByteCount |-> 0, dataBufferSize |-> 0]

\* The entries of lookup[256] followed: the byte values the buffers of
\* SpecBitCount hold, their complements, and entry 255, which the lazy
\* initialisation tests.
TableEntries == {0, 7, 248, 255}

\* a task that is not inside GetBitCount
NoCall == [pc |-> "idle", value |-> 0, pending |-> {}, i |-> 0, bitCount |-> 0]

\* no allocation is followed, the table is zero-initialised, no task runs
Aside ==
    /\ alloc = [b \in BufIds |-> NoAlloc]
    /\ lookup = [val \in TableEntries |-> 0]
    /\ tasks = [t \in BufIds |-> NoCall]

\* values of DMX_SIMULATOR_ENABLED in the environment
EnvValues == {Unset, "1"}

\* (sectorCount, bytesPerSector) arguments of the constructor that succeed
Shapes == {<<1, 3>>, <<MaxSectors, 4>>, <<1, 28>>}

GarbageBytes == {0, 205}

\* (startSector, sectorCount) arguments: the whole buffer, the second sector
Ranges == {<<0, 0>>, <<1, 1>>}

\* and a range that ends past the last sector of every buffer of the model
WideRanges == Ranges \cup {<<1, MaxSectors>>}

\* the second sector alone: out of range for a buffer of one sector
TailRanges == {<<1, 1>>}

\* (sectorCount, bytesPerSector) arguments of resize
ResizeArgs == {<<0, 4>>, <<1, 0>>, <<1, 3>>, <<MaxSectors, 4>>, <<MaxSectors, 28>>}

FillValues == {65}

StartingValues == {254}

Patterns == {<<>>, <<1, 2, 3>>}

Seeds == {WordOf(5, 32), AllOnes(32)}

ClockSeeds == {WordOf(0, 32), WordOf(9, 32)}

Names == {"a"}

NoSeed == {}

\* operator new, modelled as handing every owner object its own address
AllocData(b) == b

AllocRandom(b) == b

\* a copy constructor that copies the pointer instead of the bytes
CopyDataAddrShallow(dst, src) == bufs[src].data

\* the address of the allocation the copy constructor gives the new object dst
CopyDataAddr(dst, src) == AllocData(dst)

CopyRandomAddr(dst, src) == AllocRandom(dst)

\* _data of object b points to a live allocation (and _random, if set, too)
Live(b) ==
    /\ bufs[b] # NoBuf
    /\ mem[bufs[b].data] # Freed
    /\ bufs[b].random # NullAddr => rnd[bufs[b].random] # NULL

\* the object b as its methods see it: pointers dereferenced
View(b) ==
    [name |-> bufs[b].name, bytesPerSector |-> bufs[b].bytesPerSector,
     sectorCount |-> bufs[b].sectorCount, usePatternMode |-> bufs[b].usePatternMode,
     data |-> mem[bufs[b].data],
     random |-> IF bufs[b].random = NullAddr THEN NULL ELSE rnd[bufs[b].random]]

\* the object with fields v, its allocations at dataAddr and randomAddr
Object(v, dataAddr, randomAddr) ==
    [name |-> v.name, bytesPerSector |-> v.bytesPerSector, sectorCount |-> v.sectorCount,
     usePatternMode |-> v.usePatternMode, data |-> dataAddr,
     random |-> IF v.random = NULL THEN NullAddr ELSE randomAddr]

\* Writes the object v back through the pointers of b; a generator that v
\* gained is a new allocation, one it lost is released.
Store(b, v) ==
    LET randomAddr == IF bufs[b].random # NullAddr THEN bufs[b].random ELSE AllocRandom(b)
    IN  /\ mem' = [mem EXCEPT ![bufs[b].data] = v.data]
        /\ rnd' = IF v.random # NULL THEN [rnd EXCEPT ![randomAddr] = v.random]
                  ELSE IF bufs[b].random # NullAddr THEN [rnd EXCEPT ![bufs[b].random] = NULL]
                  ELSE rnd
        /\ bufs' = [bufs EXCEPT ![b] = Object(v, bufs[b].data, randomAddr)]

Record(op, b, err, rg, seed) ==
    /\ last' = [op |-> op, buf |-> b, err |-> err, startSector |-> rg[1],
                sectorCount |-> rg[2], seed |-> seed]
    /\ steps' = steps + 1
    /\ UNCHANGED <<res, alloc, lookup, tasks>>

\* A method call on b with result r.
Commit(op, b, r, rg, seed) ==
    /\ Store(b, r.buf)
    /\ Record(op, b, r.err, rg, seed)
    /\ UNCHANGED env

Init ==
    \E shape \in Shapes, e \in EnvValues, g \in GarbageBytes :
        LET sc == shape[1]
            bps == shape[2]
            r == Construct(sc, bps, e, g)
        IN  /\ bufs = [b \in BufIds |-> IF b = 1 THEN Object(r.buf, AllocData(1), NullAddr)
                                        ELSE NoBuf]
            /\ mem = [a \in BufIds |-> IF a = AllocData(1) THEN r.buf.data ELSE Freed]
            /\ rnd = [a \in BufIds |-> NULL]
            /\ env = e
            /\ seeded = [b \in BufIds |-> FALSE]
            /\ last = [op |-> "Construct", buf |-> 1, err |-> "ok", startSector |-> sc,
                       sectorCount |-> bps, seed |-> NoSeed]
            /\ steps = 0
            /\ res = CompareResultEqual
            /\ Aside

CallConstruct ==
    \E b \in BufIds, shape \in Shapes \cup {<<0, 4>>, <<1, 0>>}, g \in GarbageBytes :
        /\ steps < MaxSteps
        /\ bufs[b] = NoBuf
        /\ LET sc == shape[1]
               bps == shape[2]
               r == Construct(sc, bps, env, g)
           IN  /\ IF r.err = "ok"
                  THEN /\ bufs' = [bufs EXCEPT ![b] = Object(r.buf, AllocData(b), NullAddr)]
                       /\ mem' = [mem EXCEPT ![AllocData(b)] = r.buf.data]
                  ELSE UNCHANGED <<bufs, mem>>
               /\ Record("Construct", b, r.err, <<sc, bps>>, NoSeed)
        /\ UNCHANGED <<rnd, env, seeded>>

CallCopyConstruct ==
    \E dst \in BufIds, src \in BufIds, g \in GarbageBytes :
        /\ steps < MaxSteps
        /\ bufs[dst] = NoBuf
        /\ Live(src)
        /\ LET v == CopyConstruct(View(src), g)
           IN  /\ bufs' = [bufs EXCEPT ![dst] =
                             Object(v, CopyDataAddr(dst, src), CopyRandomAddr(dst, src))]
               /\ mem' = [mem EXCEPT ![CopyDataAddr(dst, src)] = v.data]
               /\ rnd' = IF v.random = NULL THEN rnd
                         ELSE [rnd EXCEPT ![CopyRandomAddr(dst, src)] = v.random]
        /\ seeded' = [seeded EXCEPT ![dst] = FALSE]
        /\ Record("CopyConstruct", dst, "ok", <<src, 0>>, NoSeed)
        /\ UNCHANGED env

CallSetEnv ==
    \E e \in EnvValues :
        /\ steps < MaxSteps
        /\ e # env
        /\ env' = e
        /\ Record("SetEnv", 0, "ok", <<0, 0>>, NoSeed)
        /\ UNCHANGED <<bufs, mem, rnd, seeded>>

CallSetName ==
    \E b \in BufIds, name \in Names :
        /\ steps < MaxSteps /\ Live(b)
        /\ Commit("SetName", b, SetName(View(b), name), <<0, 0>>, NoSeed)
        /\ UNCHANGED seeded

CallSetByte ==
    \E b \in BufIds, past \in BOOLEAN, value \in FillValues :
        /\ steps < MaxSteps /\ Live(b)
        /\ LET index == IF past THEN GetTotalBytes(View(b)) ELSE 0
           IN  Commit("SetByte", b, SetByte(View(b), index, value), <<index, 0>>, NoSeed)
        /\ UNCHANGED seeded

CallFill ==
    \E b \in BufIds, value \in FillValues, rg \in WideRanges :
        /\ steps < MaxSteps /\ Live(b)
        /\ Commit("Fill", b, Fill(View(b), value, rg[1], rg[2]), rg, NoSeed)
        /\ UNCHANGED seeded

CallFillZeros ==
    \E b \in BufIds, rg \in TailRanges :
        /\ steps < MaxSteps /\ Live(b)
        /\ Commit("FillZeros", b, FillZeros(View(b), rg[1], rg[2]), rg, NoSeed)
        /\ UNCHANGED seeded

CallFillOnes ==
    \E b \in BufIds, rg \in TailRanges :
        /\ steps < MaxSteps /\ Live(b)
        /\ Commit("FillOnes", b, FillOnes(View(b), rg[1], rg[2]), rg, NoSeed)
        /\ UNCHANGED seeded

CallFillIncrementing ==
    \E b \in BufIds, start \in StartingValues, rg \in TailRanges :
        /\ steps < MaxSteps /\ Live(b)
        /\ Commit("FillIncrementing", b, FillIncrementing(View(b), start, rg[1], rg[2]),
                  rg, NoSeed)
        /\ UNCHANGED seeded

CallFillDecrementing ==
    \E b \in BufIds, start \in StartingValues, rg \in TailRanges :
        /\ steps < MaxSteps /\ Live(b)
        /\ Commit("FillDecrementing", b, FillDecrementing(View(b), start, rg[1], rg[2]),
                  rg, NoSeed)
        /\ UNCHANGED seeded

CallFillBytes ==
    \E b \in BufIds, list \in Patterns, rg \in TailRanges :
        /\ steps < MaxSteps /\ Live(b)
        /\ Commit("FillBytes", b, FillBytes(View(b), list, rg[1], rg[2]), rg, NoSeed)
        /\ UNCHANGED seeded

CallFillAddressOverlay ==
    \E b \in BufIds, rg \in TailRanges :
        /\ steps < MaxSteps /\ Live(b)
        /\ Commit("FillAddressOverlay", b,
                  FillAddressOverlay(View(b), WordOf(42, 64), rg[1], rg[2]), rg, NoSeed)
        /\ UNCHANGED seeded

CallFillRandom ==
    \E b \in BufIds, rg \in Ranges, clock \in ClockSeeds :
        /\ steps < MaxSteps /\ Live(b)
        /\ Commit("FillRandom", b, FillRandom(View(b), rg[1], rg[2], clock), rg, NoSeed)
        /\ UNCHANGED seeded

CallFillRandomSeeded ==
    \E b \in BufIds, seed \in Seeds, rg \in Ranges :
        /\ steps < MaxSteps /\ Live(b)
        /\ LET r == FillRandomSeeded(View(b), seed, rg[1], rg[2])
           IN  /\ Commit("FillRandomSeeded", b, r, rg, seed)
               /\ seeded' = [seeded EXCEPT ![b] = @ \/ r.err = "ok"]

CallFillRandomSeededBySector ==
    \E b \in BufIds, seed \in Seeds, rg \in Ranges :
        /\ steps < MaxSteps /\ Live(b)
        /\ LET r == FillRandomSeededBySector(View(b), seed, rg[1], rg[2])
           IN  /\ Commit("FillRandomSeededBySector", b, r, rg, seed)
               /\ seeded' = [seeded EXCEPT ![b] = @ \/ r.err = "ok"]

CallResize ==
    \E b \in BufIds, a \in ResizeArgs, e \in {env}, g \in GarbageBytes :
        /\ steps < MaxSteps /\ Live(b)
        /\ LET r == Resize(View(b), a[1], a[2], e, g)
           IN  /\ Store(b, r.buf)
               /\ Record("Resize", b, r.err, a, NoSeed)
        /\ seeded' = [seeded EXCEPT ![b] = FALSE]
        /\ UNCHANGED env

Next ==
    \/ CallConstruct
    \/ CallCopyConstruct
    \/ CallSetEnv
    \/ CallSetName
    \/ CallSetByte
    \/ CallFill
    \/ CallFillZeros
    \/ CallFillOnes
    \/ CallFillIncrementing
    \/ CallFillDecrementing
    \/ CallFillBytes
    \/ CallFillAddressOverlay
    \/ CallFillRandom
    \/ CallFillRandomSeeded
    \/ CallFillRandomSeededBySector
    \/ CallResize

Spec == Init /\ [][Next]_vars

(***************************************************************************)
(* Comparison.  Two objects of independent shape and payload exist; the    *)
(* client compares one with the other once.  The payloads are those that   *)
(* SetByte calls on a fresh buffer produce.                                *)
(***************************************************************************)
\* (sectorCount, bytesPerSector) of the two operands
CompareShapes == {<<MaxSectors, 4>>, <<MaxSectors, 3>>, <<1, 8>>}

\* the byte SetByte stores into operand b
MarkValue(b) == IF b = 1 THEN 9 ELSE 7

\* sets of byte indices that SetByte is applied to in a payload of total bytes
MarkSets(total) == {{}, {0}, {total - 1}, {total \div 2, total - 1}}

\* the object buf after SetByte(i, value) for every i in marks
Marked(buf, marks, value) ==
    [buf EXCEPT !.data = [k \in 1..Len(buf.data) |->
                              IF (k - 1) \in marks THEN value ELSE buf.data[k]]]

\* startSector and startSector2 arguments of CompareTo
CompareStarts == {0, 1}

\* sectorCount arguments of CompareTo; 0 - 1 is SIZE_MAX
CompareCounts == {0, 1, MaxSectors, 0 - 1}

InitCompare ==
    \E shape1 \in CompareShapes, shape2 \in CompareShapes :
        \E marks1 \in MarkSets(shape1[1] * shape1[2]), marks2 \in MarkSets(shape2[1] * shape2[2]) :
            LET v1 == Marked(Construct(shape1[1], shape1[2], Unset, 0).buf, marks1, MarkValue(1))
                v2 == Marked(Construct(shape2[1], shape2[2], Unset, 0).buf, marks2, MarkValue(2))
            IN  /\ bufs = [b \in BufIds |-> Object(IF b = 1 THEN v1 ELSE v2, AllocData(b), NullAddr)]
                /\ mem = [a \in BufIds |-> IF a = AllocData(1) THEN v1.data ELSE v2.data]
                /\ rnd = [a \in BufIds |-> NULL]
                /\ env = Unset
                /\ seeded = [b \in BufIds |-> FALSE]
                /\ last = [op |-> "SetByte", buf |-> 2, err |-> "ok", startSector |-> 0,
                           sectorCount |-> 0, seed |-> NoSeed]
                /\ steps = 0
                /\ res = CompareResultEqual
                /\ Aside

\* res = a.CompareTo(b, startSector, startSector2, sectorCount); an exception
\* leaves res as it was.
CallCompareTo ==
    \E a \in BufIds, b \in BufIds, startSector \in CompareStarts, startSector2 \in CompareStarts,
       sectorCount \in CompareCounts :
        /\ steps = 0
        /\ a # b
        /\ Live(a)
        /\ Live(b)
        /\ LET r == CompareTo(View(a), View(b), startSector, startSector2, sectorCount)
           IN  /\ res' = IF r.err = "ok" THEN r.result ELSE res
               /\ last' = [op |-> "CompareTo", buf |-> a, err |-> r.err,
                           startSector |-> startSector, sectorCount |-> sectorCount,
                           seed |-> NoSeed, buffer |-> b, startSector2 |-> startSector2]
        /\ steps' = steps + 1
        /\ UNCHANGED <<bufs, mem, rnd, env, seeded, alloc, lookup, tasks>>

NextCompare == CallCompareTo

SpecCompare == InitCompare /\ [][NextCompare]_vars

(***************************************************************************)
(* CompareResult.  The client holds one CompareResult, made by either      *)
(* constructor, and calls AddDifference on it.                             *)
(***************************************************************************)
\* bound on _differenceCount
MaxDifferences == 3

\* offset arguments
DifferenceOffsets == {0, 5, 9}

\* expectedValue and actualValue arguments
DifferenceValues == {<<1, 3>>, <<2, 4>>, <<255, 0>>}

\* AddDifference that records the triple of every call
AddDifferenceOverwrite(result, offset, expectedValue, actualValue) ==
    [areEqual |-> FALSE, firstDifferenceOffset |-> offset, expectedValue |-> expectedValue,
     actualValue |-> actualValue, differenceCount |-> result.differenceCount + 1]

AddDifference(result, offset, expectedValue, actualValue) ==
    IF result.areEqual
    THEN [areEqual |-> FALSE, firstDifferenceOffset |-> offset, expectedValue |-> expectedValue,
          actualValue |-> actualValue, differenceCount |-> 1]
    ELSE [result EXCEPT !.differenceCount = result.differenceCount + 1]

InitResult ==
    /\ bufs = [b \in BufIds |-> NoBuf]
    /\ mem = [a \in BufIds |-> Freed]
    /\ rnd = [a \in BufIds |-> NULL]
    /\ env = Unset
    /\ seeded = [b \in BufIds |-> FALSE]
    /\ steps = 0
    /\ Aside
    /\ \/ /\ res = CompareResultEqual
          /\ last = [op |-> "CompareResult", buf |-> 0, err |-> "ok", startSector |-> 0,
                     sectorCount |-> 0, seed |-> NoSeed]
       \/ \E offset \in DifferenceOffsets, v \in DifferenceValues :
              /\ res = CompareResultDiff(offset, v[1], v[2])
              /\ last = [op |-> "CompareResult", buf |-> 0, err |-> "ok", startSector |-> 0,
                         sectorCount |-> 0, seed |-> NoSeed, offset |-> offset,
                         expectedValue |-> v[1], actualValue |-> v[2]]

CallAddDifference ==
    \E offset \in DifferenceOffsets, v \in DifferenceValues :
        /\ res.differenceCount < MaxDifferences
        /\ res' = AddDifference(res, offset, v[1], v[2])
        /\ last' = [op |-> "AddDifference", buf |-> 0, err |-> "ok", startSector |-> 0,
                    sectorCount |-> 0, seed |-> NoSeed, offset |-> offset,
                    expectedValue |-> v[1], actualValue |-> v[2]]
        /\ steps' = steps + 1
        /\ UNCHANGED <<bufs, mem, rnd, env, seeded, alloc, lookup, tasks>>

NextResult == CallAddDifference

SpecResult == InitResult /\ [][NextResult]_vars

(***************************************************************************)
(* Fills.  One object of some shape, with pattern mode on or off, holding  *)
(* zeros or the trace of an earlier Fill, takes one sector-scoped fill.    *)
(***************************************************************************)
\* (sectorCount, bytesPerSector): sectors shorter than the 21-byte record,
\* exactly as long, longer; sizes that are no multiple of 4 or of 8
FillShapes == {<<MaxSectors, 4>>, <<MaxSectors, 12>>, <<MaxSectors, 21>>, <<MaxSectors, 28>>,
               <<1, 30>>}

\* the value of the Fill that preceded (0: none, the buffer is as constructed)
PriorValues == {0, 170}

\* (startSector, sectorCount): whole buffer, first sector, from sector 1 to the
\* end, sector 1 alone, and a range that ends past the buffer
FillRanges == {<<0, 0>>, <<0, 1>>, <<1, 0>>, <<1, 1>>, <<1, MaxSectors>>}

\* and a sectorCount of SIZE_MAX
WrapRanges == {<<1, 0 - 1>>}

\* startingValue of FillIncrementing
IncrementingStarts == {0, 254}

\* startingValue of FillDecrementing: the default 255, and 1
DecrementingStarts == {255, 1}

\* lists of FillBytes: empty, of a length that divides no sector size, of the
\* longest length that pattern mode records
ShortPatterns == {<<>>, <<1, 2, 3>>, <<0, 8, 7, 6, 5, 4, 3, 2>>}

\* the object a fill of SpecFill or SpecFillBytes starts from
Prepared(shape, envValue, prior) ==
    LET c == Construct(shape[1], shape[2], envValue, 0).buf
    IN  IF prior = 0 THEN c ELSE Fill(c, prior, 0, 0).buf

\* the state in which object 1 is v, left by a call recorded as call, and
\* object 2 does not exist
Prepare(v, envValue, call) ==
    /\ bufs = [b \in BufIds |-> IF b = 1 THEN Object(v, AllocData(1), NullAddr) ELSE NoBuf]
    /\ mem = [a \in BufIds |-> IF a = AllocData(1) THEN v.data ELSE Freed]
    /\ rnd = [a \in BufIds |-> NULL]
    /\ env = envValue
    /\ seeded = [b \in BufIds |-> FALSE]
    /\ last = call
    /\ steps = 0
    /\ res = CompareResultEqual
    /\ Aside

\* the record of the call that left the object of Prepared
PreparedBy(shape, prior) ==
    IF prior = 0
    THEN [op |-> "Construct", buf |-> 1, err |-> "ok", startSector |-> shape[1],
          sectorCount |-> shape[2], seed |-> NoSeed]
    ELSE [op |-> "Fill", buf |-> 1, err |-> "ok", startSector |-> 0, sectorCount |-> 0,
          seed |-> NoSeed, arg |-> prior]

InitFill ==
    \E shape \in FillShapes, e \in EnvValues, prior \in PriorValues :
        Prepare(Prepared(shape, e, prior), e, PreparedBy(shape, prior))

\* The one call on object 1, with result r; arg is the argument that is
\* neither the range nor the seed.
Once(op, r, rg, seed, arg) ==
    /\ steps = 0
    /\ Live(1)
    /\ Store(1, r.buf)
    /\ last' = [op |-> op, buf |-> 1, err |-> r.err, startSector |-> rg[1],
                sectorCount |-> rg[2], seed |-> seed, arg |-> arg]
    /\ steps' = steps + 1
    /\ seeded' = [seeded EXCEPT ![1] = @ \/ (seed # NoSeed /\ r.err = "ok")]
    /\ UNCHANGED <<env, res, alloc, lookup, tasks>>

OnceFill ==
    \E value \in FillValues, rg \in FillRanges \cup WrapRanges :
        Once("Fill", Fill(View(1), value, rg[1], rg[2]), rg, NoSeed, value)

OnceFillZeros ==
    \E rg \in FillRanges : Once("FillZeros", FillZeros(View(1), rg[1], rg[2]), rg, NoSeed, 0)

OnceFillOnes ==
    \E rg \in FillRanges : Once("FillOnes", FillOnes(View(1), rg[1], rg[2]), rg, NoSeed, 255)

OnceFillIncrementing ==
    \E startingValue \in IncrementingStarts, rg \in FillRanges :
        Once("FillIncrementing", FillIncrementing(View(1), startingValue, rg[1], rg[2]), rg,
             NoSeed, startingValue)

OnceFillDecrementing ==
    \E startingValue \in DecrementingStarts, rg \in FillRanges :
        Once("FillDecrementing", FillDecrementing(View(1), startingValue, rg[1], rg[2]), rg,
             NoSeed, startingValue)

OnceFillBytes ==
    \E list \in ShortPatterns, rg \in FillRanges :
        Once("FillBytes", FillBytes(View(1), list, rg[1], rg[2]), rg, NoSeed, list)

OnceFillAddressOverlay ==
    \E rg \in FillRanges :
        Once("FillAddressOverlay", FillAddressOverlay(View(1), WordOf(42, 64), rg[1], rg[2]), rg,
             NoSeed, 42)

OnceFillRandom ==
    \E rg \in FillRanges, clock \in ClockSeeds :
        Once("FillRandom", FillRandom(View(1), rg[1], rg[2], clock), rg, NoSeed, clock)

OnceFillRandomSeeded ==
    \E seed \in Seeds, rg \in FillRanges :
        Once("FillRandomSeeded", FillRandomSeeded(View(1), seed, rg[1], rg[2]), rg, seed, 0)

OnceFillRandomSeededBySector ==
    \E seed \in Seeds, rg \in FillRanges :
        Once("FillRandomSeededBySector", FillRandomSeededBySector(View(1), seed, rg[1], rg[2]),
             rg, seed, 0)

NextFill ==
    \/ OnceFill
    \/ OnceFillZeros
    \/ OnceFillOnes
    \/ OnceFillIncrementing
    \/ OnceFillDecrementing
    \/ OnceFillBytes
    \/ OnceFillAddressOverlay
    \/ OnceFillRandom
    \/ OnceFillRandomSeeded
    \/ OnceFillRandomSeededBySector

SpecFill == InitFill /\ [][NextFill]_vars

(***************************************************************************)
(* FillBytes.  As for the fills above, with lists of every kind of length  *)
(* and a sector long enough for the copy of FillPattern to reach its cap.  *)
(***************************************************************************)
\* (sectorCount, bytesPerSector); the last holds a list of 4097 bytes twice
FillBytesShapes == {<<MaxSectors, 4>>, <<MaxSectors, 28>>, <<1, 8200>>}

\* a list of n non-zero bytes whose period, 251, divides no length used
ListOf(n) == [i \in 1..n |-> 1 + ((i - 1) % 251)]

\* lists: empty; of length 3, beginning with 0 or holding 0 further on; of 9
\* bytes, one more than pattern mode records; of 257 bytes, a length that
\* does not fit 8 bits; of 4097 bytes, past the cap of FillPattern
Lists == {<<>>, <<1, 2, 3>>, <<0, 1, 2>>, <<1, 0, 2>>, ListOf(9), ListOf(257), ListOf(4097)}

InitFillBytes ==
    \E shape \in FillBytesShapes, e \in EnvValues, prior \in PriorValues :
        Prepare(Prepared(shape, e, prior), e, PreparedBy(shape, prior))

OnceFillBytesOf ==
    \E list \in Lists, rg \in FillRanges :
        Once("FillBytes", FillBytes(View(1), list, rg[1], rg[2]), rg, NoSeed, list)

NextFillBytes == OnceFillBytesOf \/ OnceFillIncrementing \/ OnceFillDecrementing

SpecFillBytes == InitFillBytes /\ [][NextFillBytes]_vars

(***************************************************************************)
(* The accessors and the checksum, on one buffer: one setter call, then    *)
(* one getter or checksum call.                                            *)
(***************************************************************************)
AccessShapes == {<<MaxSectors, 4>>, <<1, 9>>}

Widths == {1, 2, 4, 8}

\* values whose bytes differ from each other, and the all-ones value
AccessValues(width) ==
    {WordFrom([k \in 1..width |-> 16 * k + 1]), WordFrom([k \in 1..width |-> 250 - k]),
     AllOnes(8 * width)}

\* byte indices around both ends of the payload and of the size_t range
AccessIndices(total) ==
    {0, 1, 3, total - 8, total - 4, total - 2, total - 1, total, 0 - 1, 0 - 3, 0 - 7, 0 - 8}

ChecksumCounts(total) == {0, 1, 2, total, 0 - 1}

InitAccess ==
    \E shape \in AccessShapes :
        Prepare(FillIncrementing(Construct(shape[1], shape[2], Unset, 0).buf, 1, 0, 0).buf, Unset,
                [op |-> "FillIncrementing", buf |-> 1, err |-> "ok", startSector |-> 0,
                 sectorCount |-> 0, seed |-> NoSeed, arg |-> 1])

\* The call op on object 1 at byte index index, leaving the object v.
Access(op, v, err, index, width, bigEndian, value) ==
    /\ Live(1)
    /\ Store(1, v)
    /\ last' = [op |-> op, buf |-> 1, err |-> err, index |-> index, width |-> width,
                bigEndian |-> bigEndian, value |-> value]
    /\ steps' = steps + 1
    /\ UNCHANGED <<env, seeded, res, alloc, lookup, tasks>>

CallSet ==
    /\ steps = 0
    /\ \E width \in Widths, bigEndian \in BOOLEAN,
          index \in AccessIndices(GetTotalBytes(View(1))) :
          \E value \in AccessValues(width) :
              LET r == Set(View(1), index, width, bigEndian, value)
              IN  Access("Set", r.buf, r.err, index, width, bigEndian, value)

CallGet ==
    /\ steps = 1
    /\ \E width \in Widths, bigEndian \in BOOLEAN,
          index \in AccessIndices(GetTotalBytes(View(1))) :
          LET r == Get(View(1), index, width, bigEndian)
          IN  Access("Get", View(1), r.err, index, width, bigEndian, r.value)

CallCalculateChecksumByte ==
    /\ steps = 1
    /\ Live(1)
    /\ \E startByte \in AccessIndices(GetTotalBytes(View(1))),
          byteCount \in ChecksumCounts(GetTotalBytes(View(1))) :
          LET r == CalculateChecksumByte(View(1), startByte, byteCount)
          IN  last' = [op |-> "CalculateChecksumByte", buf |-> 1, err |-> r.err,
                       startByte |-> startByte, byteCount |-> byteCount, result |-> r.result]
    /\ steps' = steps + 1
    /\ UNCHANGED <<bufs, mem, rnd, env, seeded, res, alloc, lookup, tasks>>

NextAccess == CallSet \/ CallGet \/ CallCalculateChecksumByte

SpecAccess == InitAccess /\ [][NextAccess]_vars

(***************************************************************************)
(* FillAddressOverlay on sectors whose size is a multiple of 8: one call   *)
(* on one buffer.                                                          *)
(***************************************************************************)
OverlayShapes == {<<MaxSectors, 8>>, <<MaxSectors, 16>>, <<MaxSectors + 1, 24>>}

\* startingValue: a small value, a value with eight different bytes, and
\* values that wrap to 0 at the second and at the third sector
OverlayValues ==
    {WordOf(42, 64), WordFrom(<<1, 2, 3, 4, 5, 6, 7, 8>>), AllOnes(64), AllOnes(64) \ {0}}

InitOverlay ==
    \E shape \in OverlayShapes, e \in EnvValues, prior \in PriorValues :
        Prepare(Prepared(shape, e, prior), e, PreparedBy(shape, prior))

OnceFillAddressOverlayFrom ==
    \E startingValue \in OverlayValues, rg \in FillRanges \cup {<<0, MaxSectors + 1>>} :
        Once("FillAddressOverlay", FillAddressOverlay(View(1), startingValue, rg[1], rg[2]), rg,
             NoSeed, startingValue)

NextOverlay == OnceFillAddressOverlayFrom

SpecOverlay == InitOverlay /\ [][NextOverlay]_vars

(***************************************************************************)
(* Copies between the two objects of the comparison: one CopyTo or         *)
(* CopyFrom call.                                                          *)
(***************************************************************************)
\* A copy from object src into object dest with result r; sectors are the
\* source start sector, the destination start sector and the sector count.
CallCopy(op, src, dest, r, sectors) ==
    /\ steps = 0
    /\ src # dest
    /\ Live(src)
    /\ Live(dest)
    /\ Store(dest, r.buf)
    /\ last' = [op |-> op, buf |-> dest, err |-> r.err, buffer |-> src,
                startSector |-> sectors[1], destStartSector |-> sectors[2],
                sectorCount |-> sectors[3]]
    /\ steps' = steps + 1
    /\ UNCHANGED <<env, seeded, res, alloc, lookup, tasks>>

CallCopyTo ==
    \E src \in BufIds, dest \in BufIds, startSector \in CompareStarts,
       destStartSector \in CompareStarts, sectorCount \in CompareCounts :
        CallCopy("CopyTo", src, dest,
                 CopyTo(View(src), View(dest), startSector, destStartSector, sectorCount),
                 <<startSector, destStartSector, sectorCount>>)

CallCopyFrom ==
    \E src \in BufIds, dest \in BufIds, startSector \in CompareStarts,
       srcStartSector \in CompareStarts, sectorCount \in CompareCounts :
        CallCopy("CopyFrom", src, dest,
                 CopyFrom(View(dest), View(src), startSector, srcStartSector, sectorCount),
                 <<srcStartSector, startSector, sectorCount>>)

NextCopy == CallCopyTo \/ CallCopyFrom

SpecCopy == InitCompare /\ [][NextCopy]_vars

(***************************************************************************)
(* Allocation.  Object 1 is constructed at an address operator new chose;  *)
(* it is resized, and copied into object 2, each time into a new raw       *)
(* allocation.                                                             *)
(***************************************************************************)
\* (sectorCount, bytesPerSector): totals below, at and above a 4096 boundary
AllocShapes == {<<MaxSectors, 4>>, <<1, 4095>>, <<1, 4096>>, <<1, 4097>>}

\* Addresses operator new can return for n bytes: aligned or not, low, and
\* such that the allocation ends at the top of the address space.  A size_t
\* near 2^64 is written as for ULess.
Addresses(n) == {4096, 4097, 6000, 8191, 0 - n - 1, 0 - n - 4096, 0 - n - 4097}

\* A construction, copy construction or resize of object b that left the
\* object v and the allocation members r.alloc.
Allocate(op, b, v, r, sc, bps) ==
    /\ bufs' = [bufs EXCEPT ![b] = Object(v, AllocData(b), NullAddr)]
    /\ mem' = [mem EXCEPT ![AllocData(b)] = v.data]
    /\ alloc' = [alloc EXCEPT ![b] = r.alloc]
    /\ last' = [op |-> op, buf |-> b, err |-> r.err, startSector |-> sc, sectorCount |-> bps,
                seed |-> NoSeed]
    /\ steps' = steps + 1
    /\ UNCHANGED <<rnd, env, seeded, res, lookup, tasks>>

InitAlloc ==
    \E shape \in AllocShapes :
        \E a \in Addresses(CalculateTotalBytesToAllocate(shape[1] * shape[2]).allocatedByteCount) :
            LET v == Construct(shape[1], shape[2], Unset, 0).buf
            IN  /\ bufs = [b \in BufIds |-> IF b = 1 THEN Object(v, AllocData(1), NullAddr)
                                            ELSE NoBuf]
                /\ mem = [x \in BufIds |-> IF x = AllocData(1) THEN v.data ELSE Freed]
                /\ rnd = [x \in BufIds |-> NULL]
                /\ env = Unset
                /\ seeded = [b \in BufIds |-> FALSE]
                /\ last = [op |-> "Construct", buf |-> 1,
                           err |-> InitializeAlloc(shape[1] * shape[2], a).err,
                           startSector |-> shape[1], sectorCount |-> shape[2], seed |-> NoSeed]
                /\ steps = 0
                /\ res = CompareResultEqual
                /\ alloc = [b \in BufIds |->
                               IF b = 1
                               THEN InitializeAlloc(shape[1] * shape[2], a).alloc
                               ELSE NoAlloc]
                /\ lookup = [val \in TableEntries |-> 0]
                /\ tasks = [t \in BufIds |-> NoCall]

AllocResize ==
    \E shape \in AllocShapes :
        \E a \in Addresses(CalculateTotalBytesToAllocate(shape[1] * shape[2]).allocatedByteCount) :
            /\ steps = 0
            /\ Live(1)
            /\ Allocate("Resize", 1, Resize(View(1), shape[1], shape[2], env, 0).buf,
                        InitializeAlloc(shape[1] * shape[2], a), shape[1], shape[2])

AllocCopyConstruct ==
    \E a \in Addresses(alloc[1].allocatedByteCount) :
        /\ steps <= 1
        /\ Live(1)
        /\ bufs[2] = NoBuf
        /\ Allocate("CopyConstruct", 2, CopyConstruct(View(1), 0),
                    CopyConstructAlloc(alloc[1], a), 1, 0)

NextAlloc == AllocResize \/ AllocCopyConstruct

SpecAlloc == InitAlloc /\ [][NextAlloc]_vars

(***************************************************************************)
(* Concurrent GetBitCount.  Task t calls GetBitCount(0, 0, value) once on  *)
(* its own buffer t; the tasks share the static table lookup.  The table   *)
(* is neither atomic nor guarded: the stores of the initialising loop of   *)
(* one task race with the loads and stores of the other, so the order in   *)
(* which they reach the shared table is not fixed by the program order of  *)
(* the loop, and TaskStore takes the pending entries in any order.         *)
(***************************************************************************)
\* lists FillBytes lays into the buffers; their bytes and the complements
\* of their bytes are TableEntries
BitCountLists == {<<7, 248>>, <<255, 0>>, <<248>>}

InitBitCount ==
    \E list1 \in BitCountLists, list2 \in BitCountLists :
        LET v(list) == FillBytes(Construct(MaxSectors, 1, Unset, 0).buf, list, 0, 0).buf
        IN  /\ bufs = [b \in BufIds |-> Object(v(list1), AllocData(b), NullAddr)]
            /\ mem = [a \in BufIds |-> IF a = AllocData(1) THEN v(list1).data ELSE v(list2).data]
            /\ rnd = [a \in BufIds |-> NULL]
            /\ env = Unset
            /\ seeded = [b \in BufIds |-> FALSE]
            /\ last = [op |-> "FillBytes", buf |-> 2, err |-> "ok", startSector |-> 0,
                       sectorCount |-> 0, seed |-> NoSeed, arg |-> list2]
            /\ steps = 0
            /\ res = CompareResultEqual
            /\ Aside

\* Entry into GetBitCount up to the test lookup[255] == 0: the range is
\* validated, the mask is set, and the table is found initialised or not.
TaskCall(t) ==
    \E value \in {0, 1} :
        /\ tasks[t].pc = "idle"
        /\ ValidateByteRangeAndGetLength(View(t), 0, 0).err = "ok"
        /\ tasks' = [tasks EXCEPT ![t] =
                        IF lookup[255] = 0
                        THEN [pc |-> "init", value |-> value, pending |-> TableEntries,
                              i |-> 0, bitCount |-> 0]
                        ELSE [pc |-> "sum", value |-> value, pending |-> {}, i |-> 0,
                              bitCount |-> 0]]
        /\ UNCHANGED <<bufs, mem, rnd, env, seeded, last, steps, res, alloc, lookup>>

\* lookup[val] = count reaches the shared table, for one val still pending.
TaskStore(t) ==
    \E val \in tasks[t].pending :
        /\ tasks[t].pc = "init"
        /\ lookup' = [lookup EXCEPT ![val] = Lookup(val)]
        /\ tasks' = [tasks EXCEPT ![t].pending = @ \ {val},
                                  ![t].pc = IF tasks[t].pending = {val} THEN "sum" ELSE "init"]
        /\ UNCHANGED <<bufs, mem, rnd, env, seeded, last, steps, res, alloc>>

\* One iteration of the summing loop: bitCount += lookup[_dataStart[i] ^ mask];
\* after the last one the call returns bitCount.
TaskAdd(t) ==
    LET data == View(t).data
        byte == data[tasks[t].i + 1]
        val  == IF tasks[t].value = 0 THEN 255 - byte ELSE byte
        sum  == tasks[t].bitCount + lookup[val]
        done == tasks[t].i + 1 = Len(data)
    IN  /\ tasks[t].pc = "sum"
        /\ tasks' = [tasks EXCEPT ![t].bitCount = sum, ![t].i = @ + 1,
                                  ![t].pc = IF done THEN "done" ELSE "sum"]
        /\ IF done
           THEN /\ last' = [op |-> "GetBitCount", buf |-> t, err |-> "ok", startSector |-> 0,
                            sectorCount |-> 0, seed |-> NoSeed, arg |-> tasks[t].value,
                            bitCount |-> sum]
                /\ steps' = steps + 1
           ELSE UNCHANGED <<last, steps>>
        /\ UNCHANGED <<bufs, mem, rnd, env, seeded, res, alloc, lookup>>

NextBitCount == \E t \in BufIds : TaskCall(t) \/ TaskStore(t) \/ TaskAdd(t)

SpecBitCount == InitBitCount /\ [][NextBitCount]_vars

(***************************************************************************)
(* Properties.  A step is identified by last', the call it records; the    *)
(* object before the call is View(b), after the call View(b)'.  A call is  *)
(* made only on an object whose allocation is live: what a method does on  *)
(* the dangling _data that a failed Resize leaves behind is undefined, and *)
(* that defect is the subject of C1.                                       *)
(***************************************************************************)
SectorFills ==
    {"Fill", "FillZeros", "FillOnes", "FillIncrementing", "FillDecrementing", "FillBytes",
     "FillAddressOverlay", "FillRandom", "FillRandomSeeded", "FillRandomSeededBySector"}

RandomFills == {"FillRandom", "FillRandomSeeded", "FillRandomSeededBySector"}

\* the PRNG slot of object b is Present
Present(b) == bufs[b].random # NullAddr

RECURSIVE Stream(_, _)
\* the bytes of the next n words of the generator, and the generator after them
Stream(random, n) ==
    IF n = 0 THEN [bytes |-> <<>>, random |-> random]
    ELSE Let(LAMBDA r : Let(LAMBDA t : [bytes |-> WordBytes(r.value, 4) \o t.bytes,
                                        random |-> t.random],
                            Stream(r.random, n - 1)),
             Random32Next(random))

\* the bytes of sector i of data
SectorOf(data, bytesPerSector, i) ==
    SubSeq(data, i * bytesPerSector + 1, (i + 1) * bytesPerSector)

\* C1: a resize with sectorCount < 1 or bytesPerSector < 1 fails with
\* InvalidArgument and leaves the object as it was: same sectorCount,
\* bytesPerSector, payload, PRNG slot, and a live backing allocation.
C1_FailedResizeLeavesBuffer ==
    [][\A b \in BufIds :
          (last'.op = "Resize" /\ last'.buf = b
             /\ (last'.startSector < 1 \/ last'.sectorCount < 1))
          => /\ last'.err = "InvalidArgument"
             /\ bufs'[b] = bufs[b]
             /\ View(b)' = View(b)
             /\ Live(b)']_vars

\* C2: a sector-scoped fill that fails (OutOfRange or Runtime) leaves the
\* whole object unchanged: every payload byte and the PRNG slot with its
\* generator state and isSeeded flag.
C2_FailedFillLeavesBuffer ==
    [][\A b \in BufIds :
          (last'.op \in SectorFills /\ last'.buf = b /\ last'.err # "ok")
          => /\ last'.err \in {"OutOfRange", "Runtime"}
             /\ bufs'[b] = bufs[b]
             /\ View(b)' = View(b)]_vars

\* C3: the pattern-mode flag of an object never changes after construction,
\* whatever is called on it (resize included) and whatever the environment
\* variable becomes.  Stated over objects that are live after the step.
C3_PatternModeFixed ==
    [][\A b \in BufIds :
          (bufs[b] # NoBuf /\ Live(b)')
          => bufs'[b].usePatternMode = bufs[b].usePatternMode]_vars

\* C4: right after copy construction the copy has the sectorCount,
\* bytesPerSector, pattern-mode flag, payload (CompareTo equal) and name of
\* the source.
C4_CopyEqualsSource ==
    \A dst \in BufIds, src \in BufIds :
        (last.op = "CopyConstruct" /\ last.buf = dst /\ last.startSector = src)
        => /\ View(dst).sectorCount = View(src).sectorCount
           /\ View(dst).bytesPerSector = View(src).bytesPerSector
           /\ View(dst).usePatternMode = View(src).usePatternMode
           /\ CompareTo(View(dst), View(src), 0, 0, 0)
                = [err |-> "ok", result |-> CompareResultEqual]
           /\ View(dst).name = View(src).name

C6_ResizePreservesPrefix ==
    [][\A b \in BufIds :
          (last'.op = "Resize" /\ last'.buf = b /\ last'.err = "ok")
          => LET old == View(b)
                 new == View(b)'
                 keep == Min(GetTotalBytes(old), GetTotalBytes(new))
             IN  /\ new.sectorCount = last'.startSector
                 /\ new.bytesPerSector = last'.sectorCount
                 /\ Len(new.data) = last'.startSector * last'.sectorCount
                 /\ \A i \in 1..Len(new.data) :
                       new.data[i] = IF i <= keep THEN old.data[i] ELSE 0]_vars

\* a resize that grew a buffer holding non-zero bytes and changed bytesPerSector
C6_Witness ==
    /\ last.op = "Resize" /\ last.err = "ok"
    /\ bufs[last.buf].sectorCount = MaxSectors
    /\ bufs[last.buf].bytesPerSector = 4
    /\ View(last.buf).data[3] # 0
    /\ View(last.buf).data[4] = 0

\* C7: the PRNG slot is Absent after a non-copy constructor and stays Absent
\* under every call that is not a random fill; a random fill that completes
\* leaves it Present; once Present it stays Present under every call except
\* Resize; every successful Resize leaves it Absent.
C7_PrngSlotLifecycle ==
    [][\A b \in BufIds :
          /\ (last'.op = "Construct" /\ last'.buf = b /\ last'.err = "ok") => ~Present(b)'
          /\ (bufs[b] # NoBuf /\ ~Present(b) /\ ~(last'.op \in RandomFills /\ last'.buf = b))
             => ~Present(b)'
          /\ (last'.op \in RandomFills /\ last'.buf = b /\ last'.err = "ok") => Present(b)'
          /\ (bufs[b] # NoBuf /\ Present(b) /\ ~(last'.op = "Resize" /\ last'.buf = b))
             => Present(b)'
          /\ (last'.op = "Resize" /\ last'.buf = b /\ last'.err = "ok") => ~Present(b)']_vars

\* a sector-wise seeded fill was the first random fill and created the PRNG
C7_Witness ==
    /\ last.op = "FillRandomSeededBySector" /\ last.err = "ok"
    /\ Present(last.buf)
    /\ steps = 1

\* C8: FillRandom on an existing PRNG restarts the stream at seed 0 exactly
\* when the PRNG is marked seeded and otherwise continues the stream; so with
\* pattern mode off, after a seeded fill and no resize since, FillRandom on a
\* range writes what FillRandomSeeded(0) writes on that range.
C8_FillRandomReseed ==
    [][\A b \in BufIds :
          (last'.op = "FillRandom" /\ last'.buf = b /\ last'.err = "ok")
          => LET old == View(b)
                 new == View(b)'
                 r == GetStartAndStopBytesFromSectors(old, last'.startSector,
                                                     last'.sectorCount)
                 from == IF old.random.isSeeded THEN Random32Seeded(WordOf(0, 32))
                         ELSE old.random
                 s == Stream(from, (r.endByte - r.startByte) \div 4)
             IN  /\ old.random # NULL
                    => /\ new.random.gen = s.random.gen
                       /\ ~old.usePatternMode
                          => SubSeq(new.data, r.startByte + 1, r.endByte) = s.bytes
                 /\ (seeded[b] /\ ~old.usePatternMode)
                    => new.data = FillRandomSeeded(old, WordOf(0, 32), last'.startSector,
                                                   last'.sectorCount).buf.data]_vars

\* an unseeded fill after a seeded one, pattern mode off
C8_Witness ==
    /\ last.op = "FillRandom" /\ last.err = "ok"
    /\ seeded[last.buf]
    /\ ~bufs[last.buf].usePatternMode
    /\ View(last.buf).random.isSeeded

\* C9: two objects of the same sectorCount, bytesPerSector (a multiple of 4)
\* and pattern mode compare equal after FillRandomSeeded with the same seed
\* over the whole buffer, whatever each has done before.
C9_SeededFillDeterministic ==
    \A b1 \in BufIds, b2 \in BufIds :
        (/\ b1 < b2 /\ Live(b1) /\ Live(b2)
         /\ bufs[b1].sectorCount = bufs[b2].sectorCount
         /\ bufs[b1].bytesPerSector = bufs[b2].bytesPerSector
         /\ bufs[b1].bytesPerSector % 4 = 0
         /\ bufs[b1].usePatternMode = bufs[b2].usePatternMode)
        => \A s \in Seeds :
              LET r1 == FillRandomSeeded(View(b1), s, 0, 0)
                  r2 == FillRandomSeeded(View(b2), s, 0, 0)
              IN  /\ r1.err = "ok"
                  /\ r2.err = "ok"
                  /\ CompareTo(r1.buf, r2.buf, 0, 0, 0)
                       = [err |-> "ok", result |-> CompareResultEqual]

\* two same-shape objects with different payloads and generators in different states
C9_Witness ==
    /\ Live(1) /\ Live(2)
    /\ bufs[1].sectorCount = bufs[2].sectorCount
    /\ bufs[1].bytesPerSector = bufs[2].bytesPerSector
    /\ bufs[1].bytesPerSector % 4 = 0
    /\ bufs[1].usePatternMode = bufs[2].usePatternMode
    /\ View(1).data # View(2).data
    /\ Present(1)
    /\ View(1).random # View(2).random

\* C10: after FillRandomSeededBySector(seed, startSector, count) with pattern
\* mode off, sector i of the range holds the bytes FillRandomSeeded with seed
\* (seed + (i - startSector)) mod 2^32 writes into the first sector of a
\* buffer of the same bytesPerSector, and the other sectors are unchanged.
C10_BySectorSeeds ==
    [][\A b \in BufIds :
          (last'.op = "FillRandomSeededBySector" /\ last'.buf = b /\ last'.err = "ok"
             /\ ~View(b).usePatternMode)
          => LET old == View(b)
                 new == View(b)'
                 bps == old.bytesPerSector
                 start == last'.startSector
                 count == ValidateSectorRangeAndGetSectorCount(old, start,
                                                               last'.sectorCount).sectorCount
                 fresh == Construct(1, bps, Unset, 0).buf
             IN  \A i \in 0..(old.sectorCount - 1) :
                    SectorOf(new.data, bps, i)
                      = IF i >= start /\ i < start + count
                        THEN SectorOf(FillRandomSeeded(fresh, AddSmall(last'.seed, i - start, 32),
                                                       0, 1).buf.data, bps, 0)
                        ELSE SectorOf(old.data, bps, i)]_vars

\* a fill of all sectors whose per-sector seed wraps past 2^32 - 1
C10_Witness ==
    /\ last.op = "FillRandomSeededBySector" /\ last.err = "ok"
    /\ ~bufs[last.buf].usePatternMode
    /\ last.startSector = 0
    /\ last.seed = AllOnes(32)
    /\ bufs[last.buf].sectorCount = MaxSectors

(***************************************************************************)
(* Comparison (SpecCompare)                                                *)
(***************************************************************************)
\* The sector range (startSector, sectorCount) lies inside the object v, the
\* arguments read as the unsigned numbers they are (a negative integer
\* stands for a value near 2^64).
InRange(v, startSector, sectorCount) ==
    /\ startSector >= 0
    /\ sectorCount >= 0
    /\ startSector < v.sectorCount
    /\ startSector + sectorCount <= v.sectorCount

\* number of bytes from the start of sector startSector to the end of v
BytesToEnd(v, startSector) == (v.sectorCount - startSector) * v.bytesPerSector

\* C11: a.compareTo(b, startA, startB, count) on valid ranges raises no error
\* whatever the contents; the result is equal iff every compared byte pair
\* matches; otherwise it carries the smallest absolute byte offset in a at
\* which the pair differs, a's byte as expected value, b's byte as actual
\* value, and difference count 1.  Neither buffer is modified.
C11_CompareReportsFirstDifference ==
    [][\A a \in BufIds, b \in BufIds :
        (last'.op = "CompareTo" /\ last'.buf = a /\ last'.buffer = b) =>
            LET va == View(a)
                vb == View(b)
                count == last'.sectorCount
                startA == last'.startSector * va.bytesPerSector
                startB == last'.startSector2 * vb.bytesPerSector
                valid == /\ InRange(va, last'.startSector, count)
                         /\ InRange(vb, last'.startSector2, count)
                         /\ count > 0 => va.bytesPerSector = vb.bytesPerSector
                n == IF count = 0
                     THEN Min(BytesToEnd(va, last'.startSector), BytesToEnd(vb, last'.startSector2))
                     ELSE count * va.bytesPerSector
                differ == {i \in 0..(n - 1) : va.data[startA + i + 1] # vb.data[startB + i + 1]}
            IN  /\ View(a)' = va
                /\ View(b)' = vb
                /\ valid =>
                     /\ last'.err = "ok"
                     /\ res'.areEqual <=> differ = {}
                     /\ differ # {} =>
                          LET i == MinOf(differ)
                          IN  /\ res'.firstDifferenceOffset = startA + i
                              /\ res'.expectedValue = va.data[startA + i + 1]
                              /\ res'.actualValue = vb.data[startB + i + 1]
                              /\ res'.differenceCount = 1]_vars

\* a comparison from sector 1 of both operands found two differing byte pairs
\* and reported the first, a non-zero expected byte against a different one
C11_Witness ==
    /\ last.op = "CompareTo"
    /\ last.err = "ok"
    /\ last.startSector = 1
    /\ ~res.areEqual
    /\ res.firstDifferenceOffset >= View(last.buf).bytesPerSector
    /\ res.expectedValue # 0
    /\ \E k \in (res.firstDifferenceOffset + 2)..Len(View(last.buf).data) :
           /\ k <= Len(View(last.buffer).data)
           /\ last.startSector2 = 1
           /\ View(last.buf).bytesPerSector = View(last.buffer).bytesPerSector
           /\ View(last.buf).data[k] # View(last.buffer).data[k]

\* C12: compareTo guards both sides with the sector-range check.  A range
\* that exceeds either buffer fails with OutOfRange; with sectorCount > 0 and
\* both ranges inside, byte spans that differ fail with InvalidArgument;
\* with sectorCount = 0 the shorter of the two tails is compared; and no
\* byte outside either payload is ever read.
C12_CompareRangeGuard ==
    last.op = "CompareTo" =>
        LET va == View(last.buf)
            vb == View(last.buffer)
            count == last.sectorCount
            startA == last.startSector * va.bytesPerSector
            startB == last.startSector2 * vb.bytesPerSector
            inside == /\ InRange(va, last.startSector, count)
                      /\ InRange(vb, last.startSector2, count)
            n == Min(BytesToEnd(va, last.startSector), BytesToEnd(vb, last.startSector2))
        IN  /\ last.err # "Undefined"
            /\ ~inside => last.err = "OutOfRange"
            /\ (inside /\ count > 0 /\ count * va.bytesPerSector # count * vb.bytesPerSector)
                   => last.err = "InvalidArgument"
            /\ (inside /\ count = 0) =>
                   /\ last.err = "ok"
                   /\ res.areEqual <=>
                          \A i \in 0..(n - 1) : va.data[startA + i + 1] = vb.data[startB + i + 1]

(***************************************************************************)
(* CompareResult (SpecResult)                                              *)
(***************************************************************************)
\* C13: whichever constructor made the CompareResult and whatever
\* AddDifference calls followed, it is equal iff its difference count is 0;
\* AddDifference on an equal result records the triple of the call, marks
\* the result unequal and sets the count to 1; on an unequal result it adds
\* one to the count and leaves the recorded triple alone.
C13_AddDifference ==
    /\ [](res.areEqual <=> res.differenceCount = 0)
    /\ [][last'.op = "AddDifference" =>
            /\ res.areEqual =>
                   /\ ~res'.areEqual
                   /\ res'.firstDifferenceOffset = last'.offset
                   /\ res'.expectedValue = last'.expectedValue
                   /\ res'.actualValue = last'.actualValue
                   /\ res'.differenceCount = 1
            /\ ~res.areEqual =>
                   /\ ~res'.areEqual
                   /\ res'.firstDifferenceOffset = res.firstDifferenceOffset
                   /\ res'.expectedValue = res.expectedValue
                   /\ res'.actualValue = res.actualValue
                   /\ res'.differenceCount = res.differenceCount + 1]_vars

\* a result that began equal has taken several differences, the latest with
\* another triple than the first
C13_Witness ==
    /\ last.op = "AddDifference"
    /\ steps = res.differenceCount
    /\ res.differenceCount = MaxDifferences
    /\ res.firstDifferenceOffset # last.offset
    /\ res.expectedValue # last.expectedValue

(***************************************************************************)
(* Fills (SpecFill, SpecFillBytes)                                         *)
(***************************************************************************)
\* first byte of the range (startSector, sectorCount) of object v
RangeStart(v, startSector) == startSector * v.bytesPerSector

\* one past its last byte; sectorCount 0 means to the end of the buffer
RangeEnd(v, startSector, sectorCount) ==
    IF sectorCount = 0 THEN v.sectorCount * v.bytesPerSector
    ELSE (startSector + sectorCount) * v.bytesPerSector

\* C14: a sector-scoped fill called with (startSector, count) modifies only
\* bytes in [startSector * bps, (startSector + count) * bps), count 0 meaning
\* to the end of the buffer; every byte outside keeps its value, in both
\* pattern modes and for every bytesPerSector.
C14_FillStaysInRange ==
    [][\A b \in BufIds :
        (last'.op \in SectorFills /\ last'.buf = b) =>
            LET v == View(b)
                lo == RangeStart(v, last'.startSector)
                hi == RangeEnd(v, last'.startSector, last'.sectorCount)
            IN  /\ last'.err # "Undefined"
                /\ Len(View(b)'.data) = Len(v.data)
                /\ \A k \in 1..Len(v.data) :
                       (k - 1 < lo \/ k - 1 >= hi) => View(b)'.data[k] = v.data[k]]_vars

\* x modulo 256, for x of either sign
Mod256(x) == ((x % 256) + 256) % 256

\* C15: with pattern mode off, after fillIncrementing(start, startSector,
\* count) the byte at offset k of every sector of the range is
\* (start + k) mod 256, so every sector repeats the first whatever the
\* sector size; after fillDecrementing it is (start - k) mod 256, 255 being
\* the default start.
C15_RampRestartsPerSector ==
    [][\A b \in BufIds :
        (/\ last'.op \in {"FillIncrementing", "FillDecrementing"}
         /\ last'.buf = b
         /\ last'.err = "ok"
         /\ ~View(b).usePatternMode) =>
            LET v == View(b)
                step == IF last'.op = "FillIncrementing" THEN 1 ELSE 0 - 1
                lo == RangeStart(v, last'.startSector)
                hi == RangeEnd(v, last'.startSector, last'.sectorCount)
            IN  \A j \in lo..(hi - 1) :
                    View(b)'.data[j + 1] = Mod256(last'.arg + step * (j % v.bytesPerSector))]_vars

\* two sectors of 12 bytes filled upwards from 254: each sector starts at 254
\* and passes through 0
C15_Witness ==
    /\ last.op = "FillIncrementing"
    /\ last.err = "ok"
    /\ last.arg = 254
    /\ last.startSector = 0
    /\ last.sectorCount = 0
    /\ ~View(1).usePatternMode
    /\ View(1).bytesPerSector = 12
    /\ View(1).sectorCount >= 2
    /\ View(1).data[1] = 254
    /\ View(1).data[3] = 0
    /\ View(1).data[13] = 254

\* C16: with pattern mode off, after fillBytes(p, startSector, count) with a
\* non-empty p the byte at startByte + j is p[j mod len(p)] for every j of
\* the range, whatever the length of p (no power of two, no divisor of the
\* range, longer than 4096, longer than the range); an empty p leaves the
\* buffer as it was.
C16_FillBytesRepeatsList ==
    [][\A b \in BufIds :
        (last'.op = "FillBytes" /\ last'.buf = b /\ ~View(b).usePatternMode) =>
            LET v == View(b)
                p == last'.arg
                lo == RangeStart(v, last'.startSector)
                hi == RangeEnd(v, last'.startSector, last'.sectorCount)
            IN  IF p = <<>> THEN last'.err = "ok" /\ View(b)' = v
                ELSE last'.err = "ok" =>
                         \A j \in 0..(hi - lo - 1) :
                             View(b)'.data[lo + j + 1] = p[(j % Len(p)) + 1]]_vars

\* a list of more than 4096 bytes has been laid more than twice into a buffer
\* that held other bytes
C16_Witness ==
    /\ last.op = "FillBytes"
    /\ last.err = "ok"
    /\ ~View(1).usePatternMode
    /\ Len(last.arg) > 4096
    /\ Len(View(1).data) > 2 * Len(last.arg)
    /\ View(1).data[Len(last.arg) + 1] = last.arg[1]
    /\ View(1).data[2 * Len(last.arg) + 2] = last.arg[2]

\* the call recorded in last covered the whole of object 1
WholeBuffer ==
    /\ last.err = "ok"
    /\ RangeStart(View(1), last.startSector) = 0
    /\ RangeEnd(View(1), last.startSector, last.sectorCount) = GetTotalBytes(View(1))

\* offset of the type and length byte from the start of the range
TypeByteOffset == COMPRESSION_LBA_SIZE_IN_BYTE + COMPRESSION_PATTERN_SIZE_IN_BYTE

\* C17: for every sector count, sector size and pattern mode, after
\* fillOnes() over the whole buffer getBitCount(0, 0, 1) is totalBytes * 8,
\* and after fillZeros() over the whole buffer and after construction
\* isAllZeros() is true.
C17_OnesAndZeros ==
    /\ (last.op = "FillOnes" /\ WholeBuffer) =>
           GetBitCount(View(1), 0, 0, 1) = [err |-> "ok", count |-> GetTotalBytes(View(1)) * 8]
    /\ (last.op = "FillZeros" /\ WholeBuffer) => IsAllZeros(View(1))
    /\ last.op = "Construct" => IsAllZeros(View(1))

\* C17 as it holds: after fillOnes() over the whole buffer getBitCount(0, 0, 1)
\* is totalBytes * 8 when pattern mode is off or the buffer has at most 20
\* bytes; with pattern mode on and sectors of at least 21 bytes it is
\* totalBytes * 8 - 7 * sectorCount, offset 20 of every sector holding the
\* type and length byte 0x01.  After fillZeros() over the whole buffer and
\* after construction isAllZeros() is true in both modes.
C17_OnesAndZerosByMode ==
    /\ (/\ last.op = "FillOnes"
        /\ WholeBuffer
        /\ (~View(1).usePatternMode \/ GetTotalBytes(View(1)) <= TypeByteOffset)) =>
           GetBitCount(View(1), 0, 0, 1) = [err |-> "ok", count |-> GetTotalBytes(View(1)) * 8]
    /\ (/\ last.op = "FillOnes"
        /\ WholeBuffer
        /\ View(1).usePatternMode
        /\ View(1).bytesPerSector > TypeByteOffset) =>
           GetBitCount(View(1), 0, 0, 1) =
               [err |-> "ok",
                count |-> GetTotalBytes(View(1)) * 8 - 7 * View(1).sectorCount]
    /\ (last.op = "FillZeros" /\ WholeBuffer) => IsAllZeros(View(1))
    /\ last.op = "Construct" => IsAllZeros(View(1))

\* fillOnes() has filled a whole buffer in pattern mode whose sectors are long
\* enough to take the record: offset 20 of each sector holds 0x01
C17_Witness ==
    /\ last.op = "FillOnes"
    /\ WholeBuffer
    /\ View(1).usePatternMode
    /\ View(1).bytesPerSector = 28
    /\ View(1).sectorCount >= 2
    /\ View(1).data[21] = 1
    /\ View(1).data[49] = 1
    /\ View(1).data[1] = 255

\* the fills that write the record of pattern mode
PatternFills == SectorFills \ {"FillAddressOverlay"}

\* the ECompressionType a fill passes to FillCompressionInfo
TypeOf(call) ==
    IF call.op = "FillIncrementing" THEN eIncrementingPattern
    ELSE IF call.op = "FillDecrementing" THEN eDecrementingPattern
    ELSE IF call.op \in RandomFills THEN eRandomPattern
    ELSE eFixPattern

\* the pattern length a fill passes to FillCompressionInfo, before its cast
LengthOf(call) ==
    IF call.op = "FillBytes" THEN Len(call.arg)
    ELSE IF call.op \in RandomFills THEN 0
    ELSE 1

\* the object the call recorded in call leaves when made on v
Refill(v, call) ==
    LET s == call.startSector
        c == call.sectorCount
    IN  CASE call.op = "Fill" -> Fill(v, call.arg, s, c).buf
          [] call.op = "FillZeros" -> FillZeros(v, s, c).buf
          [] call.op = "FillOnes" -> FillOnes(v, s, c).buf
          [] call.op = "FillIncrementing" -> FillIncrementing(v, call.arg, s, c).buf
          [] call.op = "FillDecrementing" -> FillDecrementing(v, call.arg, s, c).buf
          [] call.op = "FillBytes" -> FillBytes(v, call.arg, s, c).buf
          [] call.op = "FillRandom" -> FillRandom(v, s, c, call.arg).buf
          [] call.op = "FillRandomSeeded" -> FillRandomSeeded(v, call.seed, s, c).buf
          [] call.op = "FillRandomSeededBySector" -> FillRandomSeededBySector(v, call.seed, s, c).buf

\* the payload the call leaves when pattern mode is off
Plain(v, call) == Refill([v EXCEPT !.usePatternMode = FALSE], call).data

\* the sectors of the range of the call
SectorsOf(v, call) ==
    {s \in 0..(v.sectorCount - 1) :
        /\ s >= call.startSector
        /\ s * v.bytesPerSector < RangeEnd(v, call.startSector, call.sectorCount)}

\* a pattern fill in pattern mode that is to write a record: it succeeded and
\* its pattern has 1 to 8 bytes, or it is a random fill
WritesRecord(v, call) ==
    /\ call.op \in PatternFills
    /\ call.err = "ok"
    /\ v.usePatternMode
    /\ LengthOf(call) <= COMPRESSION_MAX_PATTERN_LEN
    /\ call.op = "FillBytes" => call.arg # <<>>

C19_LongListWritesNoRecord ==
    [][\A b \in BufIds :
        (/\ last'.op = "FillBytes"
         /\ last'.buf = b
         /\ last'.err = "ok"
         /\ View(b).usePatternMode
         /\ Len(last'.arg) > COMPRESSION_MAX_PATTERN_LEN) =>
            View(b)'.data = Plain(View(b), last')]_vars

\* C20: the zero-page exception is decided sector by sector: in pattern mode,
\* after a fixed-type fill over sectors of at least 21 bytes, the type and
\* length byte of a sector is left unwritten exactly when the first byte of
\* that sector is 0.
C20_ZeroPagePerSector ==
    [][\A b \in BufIds :
        (/\ last'.buf = b
         /\ WritesRecord(View(b), last')
         /\ TypeOf(last') = eFixPattern
         /\ View(b).bytesPerSector > COMPRESSION_LBA_SIZE_IN_BYTE + COMPRESSION_PATTERN_SIZE_IN_BYTE) =>
            LET v == View(b)
                plain == Plain(v, last')
                typeByte == (TypeOf(last') * 16) + LengthOf(last')
            IN  \A s \in SectorsOf(v, last') :
                    LET base == s * v.bytesPerSector
                    IN  View(b)'.data[base + 21] =
                            IF plain[base + 1] = 0 THEN plain[base + 21] ELSE typeByte]_vars


\* the true value of a size_t written as in ULess lies within [0, total - width]
Within(buf, index, width) == index >= 0 /\ width >= 0 /\ index + width <= GetTotalBytes(buf)

\* C21: a setter of width w at an index i with i + w <= total succeeds and
\* changes bytes [i, i + w) only; the little-endian setter stores byte k of
\* the value at i + k, the big-endian one at i + w - 1 - k; the getter of the
\* same width and endianness then returns the value, and the big-endian
\* getter after a little-endian set returns the byte-reversed value.
C21_SetThenGet ==
    [][/\ (last'.op = "Set" /\ Within(View(1), last'.index, last'.width))
          => LET i == last'.index
                 w == last'.width
                 v == last'.value
                 old == View(1).data
                 new == View(1)'.data
             IN  /\ last'.err = "ok"
                 /\ \A k \in 1..Len(old) : (k <= i \/ k > i + w) => new[k] = old[k]
                 /\ Len(new) = Len(old)
                 /\ \A k \in 0..(w - 1) :
                        new[(IF last'.bigEndian THEN i + w - 1 - k ELSE i + k) + 1] = ByteOf(v, k)
                 /\ Get(View(1)', i, w, last'.bigEndian) = [err |-> "ok", value |-> v]
                 /\ ~last'.bigEndian
                        => Get(View(1)', i, w, TRUE).value
                               = {8 * (w - 1 - (b \div 8)) + (b % 8) : b \in v}
       /\ (/\ last.op = "Set" /\ last'.op = "Get"
           /\ Within(View(1), last.index, last.width)
           /\ last'.index = last.index /\ last'.width = last.width
           /\ last'.bigEndian = last.bigEndian)
          => last'.err = "ok" /\ last'.value = last.value]_vars

C21_Witness ==
    /\ last.op = "Get" /\ last.err = "ok"
    /\ last.index = 1 /\ last.width = 8 /\ last.bigEndian
    /\ last.value = WordFrom([k \in 1..8 |-> 16 * k + 1])
    /\ View(1).data = <<1, 129, 113, 97, 81, 65, 49, 33, 17>>

\* C22: an accessor of width w at index i succeeds exactly when
\* i + w <= total, and otherwise fails with OutOfRange and leaves every byte
\* alone, also for the indices at the top of the size_t range.
C22_AccessGuard ==
    [][last'.op \in {"Set", "Get"}
          => IF Within(View(1), last'.index, last'.width) THEN last'.err = "ok"
             ELSE last'.err = "OutOfRange" /\ View(1)'.data = View(1).data]_vars

RECURSIVE SumOf(_)
SumOf(bytes) == IF bytes = <<>> THEN 0 ELSE Head(bytes) + SumOf(Tail(bytes))

\* C26: CalculateChecksumByte never modifies the buffer; a zero byteCount
\* fails with InvalidArgument, a range that extends past total bytes fails
\* with OutOfRange, and otherwise the checksum plus the sum of the bytes of
\* the range is 0 modulo 256.
C26_ChecksumCancelsSum ==
    [][last'.op = "CalculateChecksumByte"
          => LET startByte == last'.startByte
                 byteCount == last'.byteCount
             IN  /\ View(1)' = View(1)
                 /\ IF byteCount = 0 THEN last'.err = "InvalidArgument"
                    ELSE IF ~Within(View(1), startByte, byteCount) THEN last'.err = "OutOfRange"
                    ELSE /\ last'.err = "ok"
                         /\ (last'.result + SumOf(SubSeq(View(1).data, startByte + 1,
                                                        startByte + byteCount))) % 256 = 0]_vars


\* C29: the name of a buffer changes only through SetName: every other
\* call, a successful Resize included, leaves the name of every existing
\* buffer as it was.
C29_NameChangesOnlyBySetName ==
    [][\A b \in BufIds :
          (/\ bufs[b] # NoBuf /\ bufs'[b] # NoBuf
           /\ ~(last'.op = "SetName" /\ last'.buf = b))
          => bufs'[b].name = bufs[b].name]_vars


\* the fills that amplify a pattern with FillPattern
Amplified == {"FillBytes", "FillIncrementing", "FillDecrementing"}

\* The arguments of the FillPattern call made by the fill recorded as call on
\* the object v (FillBytes: the list laid once; the ramps: the first sector).
PatternCall(v, call) ==
    LET startByte  == RangeStart(v, call.startSector)
        patternLen == IF call.op = "FillBytes" THEN Len(call.arg) ELSE v.bytesPerSector
    IN  [patterStart |-> startByte, patternLen |-> patternLen,
         startByte |-> startByte + patternLen,
         endByte |-> RangeEnd(v, call.startSector, call.sectorCount)]

\* the memcpy calls made by FillPattern within the fill recorded as call
CopiesOf(v, call) ==
    LET c == PatternCall(v, call)
    IN  IF call.op \in Amplified /\ call.err = "ok" /\ c.patternLen > 0 /\ c.endByte > c.startByte
        THEN FillPatternCopies(c.patterStart, c.patternLen, c.startByte, c.endByte)
        ELSE <<>>

\* C27: no copy step of FillPattern copies more than 4096 bytes.
C27_CopyStepAtMost4096 ==
    [][\A b \in BufIds :
          last'.buf = b
          => \A k \in DOMAIN CopiesOf(View(b), last') :
                 CopiesOf(View(b), last')[k].copyLen <= 4096]_vars

\* C28: in FillPattern as called by FillBytes, FillIncrementing and
\* FillDecrementing, every iteration copies from bytes already written and
\* not overlapping its destination (patterStart + copyLen <= cursor), the
\* cursor grows strictly from one iteration to the next, and the last
\* iteration ends exactly at endByte; with pattern mode off the bytes of each
\* destination equal the bytes of its source.
C28_CopiesFromWrittenBytes ==
    [][\A b \in BufIds :
          last'.buf = b
          => LET c      == PatternCall(View(b), last')
                 copies == CopiesOf(View(b), last')
                 n      == Len(copies)
                 new    == View(b)'.data
             IN  n > 0
                 => /\ copies[1].startByte = c.startByte
                    /\ copies[n].startByte + copies[n].copyLen = c.endByte
                    /\ n <= c.endByte - c.startByte
                    /\ \A k \in 1..n :
                           /\ copies[k].copyLen >= 1
                           /\ copies[k].patterStart = c.patterStart
                           /\ copies[k].patterStart + copies[k].copyLen <= copies[k].startByte
                           /\ k < n => /\ copies[k + 1].startByte
                                            = copies[k].startByte + copies[k].copyLen
                                       /\ copies[k + 1].startByte > copies[k].startByte
                           /\ ~View(b).usePatternMode
                                  => \A j \in 1..copies[k].copyLen :
                                         new[copies[k].startByte + j]
                                             = new[copies[k].patterStart + j]]_vars

\* a list of 3 bytes amplified through 8200 bytes: the copy length doubles
\* from 3 to 3072 and the last copy is cut at the end of the range
C28_Witness ==
    /\ last.op = "FillBytes" /\ last.err = "ok" /\ last.arg = <<1, 2, 3>>
    /\ Len(View(1).data) = 8200
    /\ Len(CopiesOf(View(1), last)) = 12
    /\ CopiesOf(View(1), last)[11].copyLen = 3072
    /\ CopiesOf(View(1), last)[12].copyLen = 2056
    /\ View(1).data[8200] = 1


RECURSIVE Orders(_)
\* the sequences in which the elements of S can be taken, one after another
Orders(S) ==
    IF S = {} THEN {<<>>}
    ELSE UNION {{<<x>> \o o : o \in Orders(S \ {x})} : x \in S}

RECURSIVE OverlayInOrder(_, _, _, _, _)
\* the iterations of the loop of FillAddressOverlay run one at a time in the
\* given order of their counter values
OverlayInOrder(data, startingValue, jump, start64bitOffset, order) ==
    IF order = <<>> THEN data
    ELSE OverlayInOrder(FillAddressOverlayLoop(data, startingValue, jump, start64bitOffset,
                                               Head(order) + jump, Head(order)),
                        startingValue, jump, start64bitOffset, Tail(order))

\* C24: on a buffer whose bytesPerSector is a multiple of 8, a successful
\* FillAddressOverlay(startValue, startSector, count) leaves in every sector s
\* of the range the 64-bit little-endian value startValue + (s - startSector)
\* modulo 2^64 at sector offsets 0 and bytesPerSector - 8 and leaves every
\* other byte of the buffer unchanged; running the iterations of its loop in
\* any order gives the same payload.
C24_AddressOverlay ==
    [][(last'.op = "FillAddressOverlay" /\ last'.err = "ok"
        /\ View(1).bytesPerSector % 8 = 0)
          => LET v     == View(1)
                 bps   == v.bytesPerSector
                 new   == View(1)'.data
                 first == last'.startSector
                 count == IF last'.sectorCount = 0 THEN v.sectorCount - first
                          ELSE last'.sectorCount
                 range == first..(first + count - 1)
                 value(s) == WordBytes(AddSmall(last'.arg, s - first, 64), 8)
             IN  /\ Len(new) = Len(v.data)
                 /\ \A s \in range :
                        /\ SubSeq(new, s * bps + 1, s * bps + 8) = value(s)
                        /\ SubSeq(new, (s + 1) * bps - 7, (s + 1) * bps) = value(s)
                 /\ \A k \in 0..(Len(new) - 1) :
                        (\/ k \div bps \notin range
                         \/ (k % bps >= 8 /\ k % bps < bps - 8))
                        => new[k + 1] = v.data[k + 1]
                 /\ \A order \in Orders({s * (bps \div 8) : s \in range}) :
                        OverlayInOrder(v.data, last'.arg, bps \div 8, first * (bps \div 8), order)
                            = new]_vars

\* the overlay from 2^64 - 2 on three sectors of 24 bytes that held 0xAA:
\* the third sector holds 0, the bytes between the two copies are kept
C24_Witness ==
    /\ last.op = "FillAddressOverlay" /\ last.err = "ok"
    /\ last.arg = AllOnes(64) \ {0}
    /\ last.startSector = 0 /\ last.sectorCount = MaxSectors + 1
    /\ View(1).bytesPerSector = 24
    /\ ~View(1).usePatternMode
    /\ SubSeq(View(1).data, 1, 24) = <<254, 255, 255, 255, 255, 255, 255, 255,
                                       170, 170, 170, 170, 170, 170, 170, 170,
                                       254, 255, 255, 255, 255, 255, 255, 255>>
    /\ SubSeq(View(1).data, 49, 72) = <<0, 0, 0, 0, 0, 0, 0, 0,
                                        170, 170, 170, 170, 170, 170, 170, 170,
                                        0, 0, 0, 0, 0, 0, 0, 0>>


\* C25: a copy of count sectors of src from sector srcStart into dest at
\* sector destStart (CopyTo called on src, CopyFrom called on dest) leaves
\* src unchanged; when the source range is invalid it fails with OutOfRange
\* and writes nothing; otherwise it succeeds, the n bytes of dest from byte
\* destStart * dest.bytesPerSector equal the n bytes of src from byte
\* srcStart * src.bytesPerSector (n = count * src.bytesPerSector, count 0
\* meaning to the end of src), no other byte of dest changes and no byte
\* outside the payload of dest is written.
C25_CopyBetweenBuffers ==
    [][\A s \in BufIds, d \in BufIds :
          (last'.op \in {"CopyTo", "CopyFrom"} /\ last'.buffer = s /\ last'.buf = d)
          => LET src  == View(s)
                 dest == View(d)
                 new  == View(d)'.data
                 from == last'.startSector * src.bytesPerSector
                 to   == last'.destStartSector * dest.bytesPerSector
                 n    == IF last'.sectorCount = 0 THEN BytesToEnd(src, last'.startSector)
                         ELSE last'.sectorCount * src.bytesPerSector
             IN  /\ View(s)' = src
                 /\ IF ~InRange(src, last'.startSector, last'.sectorCount)
                    THEN last'.err = "OutOfRange" /\ new = dest.data
                    ELSE /\ last'.err = "ok"
                         /\ Len(new) = Len(dest.data)
                         /\ to + n <= Len(new)
                         /\ \A k \in 0..(Len(new) - 1) :
                                new[k + 1] = IF k >= to /\ k < to + n
                                             THEN src.data[from + (k - to) + 1]
                                             ELSE dest.data[k + 1]]_vars


\* total rounded up to a multiple of 4096
RoundUp4096(total) == ((total + 4095) \div 4096) * 4096

\* C23: after construction, copy construction and every resize, whatever
\* address the raw allocator returned: the payload start is a multiple of
\* 4096, lies at least 4096 bytes after the allocation base, the payload
\* ends within the allocation, the allocated byte count is
\* roundUp(total, 4096) + 4095 + 4096, and the allocation-error check did
\* not fire.
C23_AlignedPayload ==
    \A b \in BufIds :
        bufs[b] # NoBuf
        => LET a      == alloc[b]
               total  == GetTotalBytes(View(b))
               offset == a.dataStart - a.data
           IN  /\ last.err = "ok"
               /\ a.dataStart % 4096 = 0
               /\ offset >= 4096
               /\ offset + total <= a.allocatedByteCount
               /\ a.allocatedByteCount = RoundUp4096(total) + 4095 + 4096

\* Object 1 holds 4096 bytes in an allocation that begins one byte after a
\* 4096 boundary near the top of the address space: the payload ends where
\* the allocation ends.  Its copy lies in an aligned allocation.
C23_Witness ==
    /\ last.op = "CopyConstruct"
    /\ GetTotalBytes(View(1)) = 4096
    /\ alloc[1].data = 0 - alloc[1].allocatedByteCount - 4096
    /\ alloc[1].dataStart - alloc[1].data = 4095 + 4096
    /\ alloc[1].dataStart - alloc[1].data + 4096 = alloc[1].allocatedByteCount
    /\ alloc[2].data = 4096
    /\ alloc[2].dataStart = 8192
    /\ alloc[2].allocatedByteCount = 4096 + 8191


====
